---- MODULE Spec2Model ----
(***************************************************************************)
(* Device selection with fallback in the Pdf2Md audio scripts.             *)
(*                                                                         *)
(* Four entry points are modelled, each a small sequential program over    *)
(* the same external engine provider (faster_whisper.WhisperModel):        *)
(*   "main"     src/src/gpu_transcribe.py  main / load_model /             *)
(*              transcribe_audio                                           *)
(*   "validate" src/validate_faster_whisper.py  test_faster_whisper        *)
(*   "simple"   src/simple_whisper_test.py  test_gpu_model_loading         *)
(*   "single"   src/docs/testing/incremental_gpu_tester.py                 *)
(*              IncrementalGPUTester.test_single_file                      *)
(* The environment (file system, GPU probe, what the engine provider does  *)
(* on each device) is drawn in Init and stays unchanged during the run.    *)
(***************************************************************************)
EXTENDS Naturals, Sequences, FiniteSets

VARIABLES
    prog,           \* which entry point this run executes
    env,            \* the environment: file system, GPU probe, engine provider
    args,           \* the arguments of the entry point
    pc,             \* position in the program
    device,         \* load_model's parameter `device` (current call)
    actual_device,  \* load_model's local `actual_device`
    device_info,    \* load_model's `device_info` dict
    idx,            \* test_faster_whisper: index into device_configs
    exc,            \* the exception being handled or propagated ("none" if none)
    engines,        \* devices of the engines constructed and not yet released
                    \* by the code's clean-up (`del model`)
    cacheCleared,   \* torch.cuda.empty_cache() ran since the last construction
    attempts,       \* history: one entry per WhisperModel construction call
    out,            \* messages printed so far (stderr/stdout), in order
    ret,            \* what the caller receives at the end
    uncaught,       \* an exception left the entry point unhandled
    \* transcribe_audio's result and test_large_files' statistics
    tprog,          \* which of the two functions this run executes
    tpc,            \* position in it
    emitted,        \* the segments the engine emits, in its order
    info_duration,  \* info.duration, in clock ticks
    elapsed,        \* time.time() - start_time as the clock will measure it
    seg_pos,        \* number of segments the loop has consumed
    transcript_segments,  \* transcribe_audio's local list of segment dicts
    full_text,      \* transcribe_audio's local `full_text`
    result,         \* transcribe_audio's `result` dict
    files,          \* test_large_files: per file, info.duration and the
                    \* processing time the clock will measure
    file_pos,       \* test_large_files: number of files processed
    results,        \* test_large_files' list `results`
    total_audio_duration,
    total_processing_time,
    overall_speed,  \* test_large_files' `overall_speed`
    zero_division,  \* a ZeroDivisionError was raised
    stats_error,    \* a statistics.StatisticsError was raised
    \* calling an entry point a second time
    first,          \* what the first call ended with (NoFirst during it)
    \* several calls of load_model / transcribe under way at once
    creq,           \* per invocation: the device it was asked to use
    cpc,            \* per invocation: its position
    cdev,           \* per invocation: load_model's `actual_device`
    cheld,          \* per invocation and device: memory units its engines hold
    pool,           \* per device: free units of that device's memory
    ctrail,         \* per invocation: its WhisperModel construction calls
    cret,           \* per invocation: what its caller receives
    \* transcribe_audio_simple (src/src/simple_audio_transcription.py)
    spc,            \* position in transcribe_audio_simple
    senv,           \* its environment: file system, whisper package, model
    model_name,     \* its local `model_name`
    scalls,         \* history: the calls made into whisper and the cache
    sout,           \* what it printed to stderr
    sret,           \* what it returned or raised
    \* DirectAudioSampler.smart_sample_files (docs/testing/direct_audio_sampler.py)
    mpc,            \* position in smart_sample_files
    audio_members,  \* its argument: per member of the archive, its size
    max_files,      \* its argument `max_files`
    sorted_files,   \* its local `sorted_files` (members by position in the input)
    selected,       \* its local `selected`
    sample_ret,     \* the list it returned
    \* IncrementalGPUTester phases (docs/testing/incremental_gpu_tester.py)
    kphase,         \* which phases this run executes
    kpc,            \* position in them
    test_files,     \* the manifest's `test_files`
    cuda_available, \* torch.cuda.is_available()
    clock,          \* resolution of time.time() on this machine
    cpu_baseline,   \* what run_phase_1_cpu_baseline returned
    phase_results,  \* the running phase's local `phase_results`
    device_times,   \* the running phase's cpu_times / gpu_times / device_times
    successful_tests,
    file_i,         \* the loop's index i (0-based, as in the code)
    dev_i,          \* phase 3: index into its device list
    kcalls,         \* history: the test_single_file calls made, in order
    kraised,        \* the exception that left the running phase ("none" if none)
    \* AudioBenchmark (tests/gpu_acceleration/benchmark_gpu_vs_cpu.py)
    bpc,            \* position in run_comprehensive_benchmark
    audio_dir,      \* tests/audio_samples: whether it exists, its *.mp3 sizes
    bcuda,          \* torch.cuda.is_available()
    gputil,         \* GPUTIL_AVAILABLE
    gpu_load,       \* per file of a run: the GPU load GPUtil would report
    bdevice,        \* test_model_performance's parameter `device`
    btest_files,    \* its local `test_files` (files by position in the listing)
    bresults,       \* its local `results`
    bench,          \* self.results: gpu_results, cpu_results, summary
    bcalls,         \* history: the test_model_performance calls that returned
    braised,        \* the exception that left the benchmark ("none" if none)
    saved           \* save_results ran

runnerVars == << prog, env, args, pc, device, actual_device, device_info, idx,
                 exc, engines, cacheCleared, attempts, out, ret, uncaught >>

transcribeVars == << tprog, tpc, emitted, info_duration, elapsed, seg_pos,
                     transcript_segments, full_text, result, files, file_pos,
                     results, total_audio_duration, total_processing_time,
                     overall_speed, zero_division, stats_error >>

\* What the entry points of the device selection leave alone.
concVars == << creq, cpc, cdev, cheld, pool, ctrail, cret >>

simpleVars == << spc, senv, model_name, scalls, sout, sret >>

\* The variables of the other scripts.
samplerVars == << mpc, audio_members, max_files, sorted_files, selected,
                 sample_ret >>

testerVars == << kphase, kpc, test_files, cuda_available, clock, cpu_baseline,
                phase_results, device_times, successful_tests, file_i, dev_i,
                kcalls, kraised >>

benchVars == << bpc, audio_dir, bcuda, gputil, gpu_load, bdevice, btest_files,
               bresults, bench, bcalls, braised, saved >>

scriptVars == << simpleVars, samplerVars, testerVars, benchVars >>

auxVars == << transcribeVars, first, concVars, scriptVars >>

\* What transcribe_audio and test_large_files leave alone.
notTranscribeVars == << runnerVars, first, concVars, scriptVars >>

\* What transcribe_audio_simple leaves alone.
notSimpleVars == << runnerVars, transcribeVars, first, concVars, samplerVars,
                   testerVars, benchVars >>

\* What smart_sample_files leaves alone.
notSamplerVars == << runnerVars, transcribeVars, first, concVars, simpleVars,
                    testerVars, benchVars >>

\* What the tester's phases leave alone.
notTesterVars == << runnerVars, transcribeVars, first, concVars, simpleVars,
                   samplerVars, benchVars >>

\* What the benchmark leaves alone.
notBenchVars == << runnerVars, transcribeVars, first, concVars, simpleVars,
                  samplerVars, testerVars >>

vars == << runnerVars, transcribeVars, first, concVars, scriptVars >>

----------------------------------------------------------------------------
(* Bounds and input sets *)

\* No run constructs more engines than this (guards the construction steps).
MaxAttempts == 4

Devices == {"cuda", "cpu"}

Progs == {"main", "validate", "simple", "single"}

\* What the engine provider raises on construction, and on transcription.
ConDetails == {"OutOfMemory", "DriverMissing"}
TrDetails  == {"DecodeError"}

\* torch.cuda probe outcomes seen by detect_gpu_capability:
\*   "absent"      torch.cuda.is_available() is False
\*   "probe_error" torch.cuda.is_available() raises
\*   "no_device"   available, but torch.cuda.device_count() == 0
\*   "name_error"  available, device_count() or get_device_name(0) raises
\*   "props_error" available, a device is counted and named,
\*                 get_device_properties(0) raises
\*   "present"     available, one device, properties readable
GpuProbes == {"absent", "probe_error", "no_device", "name_error", "props_error",
              "present"}

\* torch.cuda.is_available() returns True.
CudaAvailable(probe) ==
    probe \in {"no_device", "name_error", "props_error", "present"}

NoInfo == [device |-> "cpu", cuda_available |-> FALSE, gpu_name |-> "none",
           model_size |-> "none"]

NoRet == [done |-> FALSE, ok |-> FALSE, device |-> "none", detail |-> "none"]

\* No call of the entry point has ended yet.
NoFirst == [ended |-> FALSE, ret |-> NoRet, device_used |-> "none",
            attempts |-> << >>]

Msg(m, d, e) == [msg |-> m, device |-> d, detail |-> e]

----------------------------------------------------------------------------
(* Engine provider: faster_whisper.WhisperModel *)

\* Variant: a raised construction is swallowed and taken for an engine.
ConstructOkSwallowed(e, d) == TRUE

\* Variant: an engine constructed on cuda is handled as a failed construction.
ConstructOkCpuOnly(e, d) == d = "cpu" /\ e.con[d] = "ok"

\* WhisperModel(..., device=d, ...) returns an engine or raises.
ConstructOk(e, d) == e.con[d] = "ok"

\* model.transcribe(...) and the iteration over its segments return or raise.
TranscribeOk(e, d) == e.tr[d] = "ok"

\* One attempt-trail entry, opened by a construction call on device d.
Attempt(e, d, ct) ==
    [device |-> d, compute_type |-> ct,
     outcome |-> IF e.con[d] = "ok" THEN "success" ELSE "failure",
     kind |-> IF e.con[d] = "ok" THEN "none" ELSE "DeviceConstructionFailed",
     detail |-> IF e.con[d] = "ok" THEN "none" ELSE e.con[d]]

\* The last attempt, marked failed after its engine was constructed.
FailLast(tr, k, e) ==
    [tr EXCEPT ![Len(tr)] =
        [@ EXCEPT !.outcome = "failure", !.kind = k, !.detail = e]]

----------------------------------------------------------------------------
(* src/src/gpu_transcribe.py *)

\* detect_gpu_capability(): (has_gpu, device_info)
detect_gpu_capability(probe) ==
    CASE probe = "present" ->
            [has_gpu |-> TRUE, raised |-> FALSE,
             info |-> [NoInfo EXCEPT !.device = "cuda", !.cuda_available = TRUE,
                                     !.gpu_name = "gpu0"]]
      [] probe = "props_error" ->
            [has_gpu |-> FALSE, raised |-> TRUE,
             info |-> [NoInfo EXCEPT !.device = "cuda", !.cuda_available = TRUE,
                                     !.gpu_name = "gpu0"]]
      [] probe = "name_error" ->
            [has_gpu |-> FALSE, raised |-> TRUE,
             info |-> [NoInfo EXCEPT !.device = "cuda", !.cuda_available = TRUE]]
      [] probe = "no_device" ->
            [has_gpu |-> FALSE, raised |-> FALSE,
             info |-> [NoInfo EXCEPT !.device = "cuda", !.cuda_available = TRUE]]
      [] probe = "probe_error" ->
            [has_gpu |-> FALSE, raised |-> TRUE, info |-> NoInfo]
      [] OTHER ->
            [has_gpu |-> FALSE, raised |-> FALSE, info |-> NoInfo]

\* Variant: every request is sent to the accelerator.
RequestedDeviceAlwaysCuda(dev, has_gpu) == "cuda"

\* Variant: the device that worked in the previous call is asked for again.
RequestedDeviceSticky(dev, has_gpu) ==
    IF first.ended /\ first.device_used # "none" THEN first.device_used
    ELSE IF dev = "auto" THEN (IF has_gpu THEN "cuda" ELSE "cpu") ELSE dev

\* load_model lines 82-85: the device asked for.
RequestedDevice(dev, has_gpu) ==
    IF dev = "auto" THEN (IF has_gpu THEN "cuda" ELSE "cpu") ELSE dev

\* Variant: cuda is attempted although no GPU was detected.
ForcedToCpuNever(dev, has_gpu) == FALSE

\* load_model lines 88-90: cuda is not attempted when no GPU was detected.
ForcedToCpu(dev, has_gpu) == dev = "cuda" /\ ~has_gpu

\* load_model lines 97-109, test_single_file line 57: compute type per device.
ComputeType(d) == IF d = "cuda" THEN "float16" ELSE "int8"

\* Variant: the device of the constructed model is not written back.
UpdateInfoStale(info, d) == [info EXCEPT !.model_size = "tiny"]

\* load_model lines 113-117: device_info.update(device=actual_device, ...).
UpdateInfo(info, d) == [info EXCEPT !.device = d, !.model_size = "tiny"]

\* Variant: a failed cpu construction is sent to the fallback as well.
FallsBackAlways(d) == TRUE

\* Variant: no fallback, every failed construction is re-raised.
FallsBackNever(d) == FALSE

\* load_model line 126: a failed construction falls back only from cuda.
FallsBack(d) == d = "cuda"

\* Variant: the fallback call asks for the device that just failed.
FallbackDeviceSame == "cuda"

\* load_model line 128: the device of the fallback call.
FallbackDevice == "cpu"

\* Variant: the existence check is missing.
PathExistsAlways(e) == TRUE

\* main line 215: os.path.exists(args.filepath); test_single_file line 53.
PathExists(e) == e.fileExists

\* Variant: the failure is printed without its detail.
LoadErrorMsgBare(e) == Msg("error_loading", "none", "none")

\* load_model line 123: the failure of a construction is printed with its detail.
LoadErrorMsg(e) == Msg("error_loading", "none", e)

\* Variant: the handler is too narrow for what the engine provider raises.
MainCatchesNothing(e) == FALSE

\* main line 259: `except Exception` catches whatever load_model or
\* transcribe_audio raised.
MainCatches(e) == TRUE

----------------------------------------------------------------------------
(* gpu_transcribe.main, with load_model and transcribe_audio inlined *)

\* Lines 20-31, run when the script starts: the imports, then
\* torch.cuda.is_available() and, when it is True, torch.cuda.empty_cache().
\* Only ImportError is caught (printed, sys.exit(1)); an exception of the
\* probe leaves the script before main is reached.
ModuleImport ==
    /\ prog = "main" /\ pc = "import"
    /\ IF ~(env.torchImport /\ env.fwImport)
       THEN /\ out' = Append(out, Msg("import_error", "none", "ImportError"))
            /\ ret' = [done |-> TRUE, ok |-> FALSE, device |-> "not installed",
                       detail |-> "ImportError"]
            /\ pc' = "exit"
            /\ UNCHANGED << exc, uncaught, cacheCleared >>
       ELSE IF env.gpu = "probe_error"
       THEN /\ exc' = "ProbeRaised"
            /\ uncaught' = TRUE
            /\ pc' = "exit"
            /\ UNCHANGED << out, ret, cacheCleared >>
       ELSE /\ cacheCleared' = CudaAvailable(env.gpu)
            /\ pc' = "main"
            /\ UNCHANGED << out, ret, exc, uncaught >>
    /\ UNCHANGED auxVars
    /\ UNCHANGED << prog, env, args, device, actual_device, device_info, idx,
                    engines, attempts >>

\* main lines 213-220: validate the input file, then call load_model.
\* sys.exit(1) raises SystemExit, which `except Exception` does not catch.
MainStart ==
    /\ prog = "main" /\ pc = "main"
    /\ IF ~PathExists(env)
       THEN /\ out' = Append(out, Msg("file_not_found", "none", "none"))
            /\ ret' = [done |-> TRUE, ok |-> FALSE, device |-> "none",
                       detail |-> "File not found"]
            /\ pc' = "exit"
            /\ device' = device
       ELSE /\ device' = args.device
            /\ pc' = "load_model"
            /\ UNCHANGED << out, ret >>
    /\ UNCHANGED auxVars
    /\ UNCHANGED << prog, env, args, actual_device, device_info, idx, exc,
                    engines, cacheCleared, attempts, uncaught >>

\* load_model lines 79-90: probe the GPU and settle actual_device.
LoadModelSelect ==
    /\ prog = "main" /\ pc = "load_model"
    /\ LET d == detect_gpu_capability(env.gpu)
           req == RequestedDevice(device, d.has_gpu)
           forced == ForcedToCpu(req, d.has_gpu)
           o1 == IF d.raised
                 THEN Append(out, Msg("gpu_detection_error", "none", "none"))
                 ELSE out
       IN /\ device_info' = d.info
          /\ actual_device' = IF forced THEN "cpu" ELSE req
          /\ out' = IF forced
                    THEN Append(o1, Msg("cuda_not_available", "cpu", "none"))
                    ELSE o1
    /\ pc' = "lm_try"
    /\ UNCHANGED auxVars
    /\ UNCHANGED << prog, env, args, device, idx, exc, engines, cacheCleared,
                    attempts, ret, uncaught >>

\* load_model lines 92-120: construct the engine on actual_device.
LoadModelTry ==
    /\ prog = "main" /\ pc = "lm_try"
    /\ Len(attempts) < MaxAttempts
    /\ LET d == actual_device
           ct == ComputeType(d)
           o1 == Append(out, Msg("loading", d, "none"))
       IN /\ attempts' = Append(attempts, Attempt(env, d, ct))
          /\ IF ConstructOk(env, d)
             THEN /\ engines' = engines \cup {d}
                  /\ cacheCleared' = FALSE
                  /\ device_info' = UpdateInfo(device_info, d)
                  /\ out' = Append(o1, Msg("model_loaded", d, "none"))
                  /\ pc' = "transcribe"
                  /\ exc' = exc
             ELSE /\ exc' = env.con[d]
                  /\ out' = o1
                  /\ pc' = "lm_except"
                  /\ UNCHANGED << engines, cacheCleared, device_info >>
    /\ UNCHANGED auxVars
    /\ UNCHANGED << prog, env, args, device, actual_device, idx, ret, uncaught >>

\* load_model lines 122-130: report, then fall back to cpu (a recursive call
\* in tail position) or re-raise to the caller.
LoadModelExcept ==
    /\ prog = "main" /\ pc = "lm_except"
    /\ LET o1 == Append(out, LoadErrorMsg(exc))
       IN IF FallsBack(actual_device)
          THEN /\ out' = Append(o1, Msg("gpu_load_failed_fallback", "cpu", "none"))
               /\ device' = FallbackDevice
               /\ pc' = "load_model"
          ELSE /\ out' = o1
               /\ device' = device
               /\ pc' = "main_except"
    /\ UNCHANGED auxVars
    /\ UNCHANGED << prog, env, args, actual_device, device_info, idx, exc,
                    engines, cacheCleared, attempts, ret, uncaught >>

\* main line 223, transcribe_audio lines 144-195.
TranscribeAudio ==
    /\ prog = "main" /\ pc = "transcribe"
    /\ IF TranscribeOk(env, actual_device)
       THEN /\ out' = Append(out, Msg("transcription_completed", "none", "none"))
            /\ pc' = "output"
            /\ UNCHANGED << exc, attempts >>
       ELSE /\ out' = Append(out, Msg("transcription_error", "none",
                                      env.tr[actual_device]))
            /\ exc' = env.tr[actual_device]
            /\ attempts' = FailLast(attempts, "TranscriptionExecutionFailed",
                                    env.tr[actual_device])
            /\ pc' = "main_except"
    /\ UNCHANGED auxVars
    /\ UNCHANGED << prog, env, args, device, actual_device, device_info, idx,
                    engines, cacheCleared, ret, uncaught >>

\* main lines 226-257: attach device_info, print the document to stdout (the
\* run is without --output), and clear the CUDA cache when the model ran on
\* cuda. The model object stays bound: main has no `del model`.
MainOutput ==
    /\ prog = "main" /\ pc = "output"
    /\ out' = Append(out, Msg("document", device_info.device, "none"))
    /\ cacheCleared' = IF device_info.device = "cuda" THEN TRUE ELSE cacheCleared
    /\ ret' = [done |-> TRUE, ok |-> TRUE, device |-> device_info.device,
               detail |-> "none"]
    /\ pc' = "exit"
    /\ UNCHANGED auxVars
    /\ UNCHANGED << prog, env, args, device, actual_device, device_info, idx,
                    exc, engines, attempts, uncaught >>

\* main lines 259-261: print the error and exit with status 1.
MainExcept ==
    /\ prog = "main" /\ pc = "main_except"
    /\ IF MainCatches(exc)
       THEN /\ out' = Append(out, Msg("error", "none", exc))
            /\ ret' = [done |-> TRUE, ok |-> FALSE, device |-> "none",
                       detail |-> exc]
            /\ uncaught' = uncaught
       ELSE /\ uncaught' = TRUE
            /\ UNCHANGED << out, ret >>
    /\ pc' = "exit"
    /\ UNCHANGED auxVars
    /\ UNCHANGED << prog, env, args, device, actual_device, device_info, idx,
                    exc, engines, cacheCleared, attempts >>

----------------------------------------------------------------------------
(* src/validate_faster_whisper.py: test_faster_whisper *)

\* Variant: the configurations are listed cpu first.
device_configs_cpu_first ==
    << [device |-> "cpu", compute_type |-> "int8"],
       [device |-> "cuda", compute_type |-> "float16"] >>

\* Lines 79-82: try GPU first, fall back to CPU.
device_configs ==
    << [device |-> "cuda", compute_type |-> "float16"],
       [device |-> "cpu", compute_type |-> "int8"] >>

\* Lines 70-82: import faster_whisper; ImportError ends the test (110-112).
ValidateImport ==
    /\ prog = "validate" /\ pc = "vf_import"
    /\ IF env.fwImport
       THEN /\ out' = Append(out, Msg("imported", "none", "none"))
            /\ idx' = 1
            /\ pc' = "vf_loop"
            /\ ret' = ret
       ELSE /\ out' = Append(out, Msg("not_available", "none", "ImportError"))
            /\ ret' = [done |-> TRUE, ok |-> FALSE, device |-> "not installed",
                       detail |-> "none"]
            /\ pc' = "exit"
            /\ idx' = idx
    /\ UNCHANGED auxVars
    /\ UNCHANGED << prog, env, args, device, actual_device, device_info, exc,
                    engines, cacheCleared, attempts, uncaught >>

\* Lines 84-105: one iteration of the loop over device_configs. The model is
\* deleted right after loading; on cuda `import torch` and empty_cache follow,
\* inside the same try, so an ImportError there is handled as a failure of
\* this device (lines 103-105) and the loop continues.
ValidateTry ==
    /\ prog = "validate" /\ pc = "vf_loop"
    /\ idx <= Len(device_configs)
    /\ Len(attempts) < MaxAttempts
    /\ LET cfg == device_configs[idx]
           d == cfg.device
           o1 == Append(out, Msg("trying", d, "none"))
           tr1 == Append(attempts, Attempt(env, d, cfg.compute_type))
       IN IF ConstructOk(env, d)
          THEN IF d = "cuda" /\ ~env.torchImport
               THEN /\ out' = Append(Append(o1, Msg("model_loaded", d, "none")),
                                     Msg("failed_on", d, "ImportError"))
                    /\ attempts' = FailLast(tr1, "CleanupFailed", "ImportError")
                    /\ idx' = idx + 1
                    /\ UNCHANGED << pc, ret, cacheCleared >>
               ELSE /\ out' = Append(o1, Msg("model_loaded", d, "none"))
                    /\ attempts' = tr1
                    /\ cacheCleared' = IF d = "cuda" THEN TRUE ELSE cacheCleared
                    /\ ret' = [done |-> TRUE, ok |-> TRUE, device |-> d,
                               detail |-> "none"]
                    /\ pc' = "exit"
                    /\ idx' = idx
          ELSE /\ out' = Append(o1, Msg("failed_on", d, env.con[d]))
               /\ attempts' = tr1
               /\ idx' = idx + 1
               /\ UNCHANGED << pc, ret, cacheCleared >>
    /\ UNCHANGED auxVars
    /\ UNCHANGED << prog, env, args, device, actual_device, device_info, exc,
                    engines, uncaught >>

\* Lines 107-108: the loop ran out of configurations.
ValidateExhausted ==
    /\ prog = "validate" /\ pc = "vf_loop"
    /\ idx > Len(device_configs)
    /\ out' = Append(out, Msg("failed_any_device", "none", "none"))
    /\ ret' = [done |-> TRUE, ok |-> FALSE, device |-> "none", detail |-> "none"]
    /\ pc' = "exit"
    /\ UNCHANGED auxVars
    /\ UNCHANGED << prog, env, args, device, actual_device, device_info, idx,
                    exc, engines, cacheCleared, attempts, uncaught >>

----------------------------------------------------------------------------
(* src/simple_whisper_test.py: test_gpu_model_loading *)

\* Lines 36-48: load the tiny model on cuda with float16; delete it; True.
SimpleTryGpu ==
    /\ prog = "simple" /\ pc = "simple_gpu"
    /\ Len(attempts) < MaxAttempts
    /\ attempts' = Append(attempts, Attempt(env, "cuda", "float16"))
    /\ LET o1 == Append(out, Msg("loading", "cuda", "none"))
       IN IF ConstructOk(env, "cuda")
          THEN /\ out' = Append(o1, Msg("model_loaded", "cuda", "none"))
               /\ ret' = [done |-> TRUE, ok |-> TRUE, device |-> "none",
                          detail |-> "none"]
               /\ pc' = "exit"
               /\ exc' = exc
          ELSE /\ out' = o1
               /\ exc' = env.con["cuda"]
               /\ pc' = "simple_except"
               /\ ret' = ret
    /\ UNCHANGED auxVars
    /\ UNCHANGED << prog, env, args, device, actual_device, device_info, idx,
                    engines, cacheCleared, uncaught >>

\* Lines 50-60: report the GPU failure, then load on cpu with the default
\* compute type; delete the model; True, or False when this fails as well.
SimpleCpuFallback ==
    /\ prog = "simple" /\ pc = "simple_except"
    /\ Len(attempts) < MaxAttempts
    /\ attempts' = Append(attempts, Attempt(env, "cpu", "default"))
    /\ LET o1 == Append(Append(out, Msg("failed_on", "cuda", exc)),
                        Msg("trying", "cpu", "none"))
       IN IF ConstructOk(env, "cpu")
          THEN /\ out' = Append(o1, Msg("model_loaded", "cpu", "none"))
               /\ ret' = [done |-> TRUE, ok |-> TRUE, device |-> "none",
                          detail |-> "none"]
          ELSE /\ out' = Append(o1, Msg("failed_on", "cpu", env.con["cpu"]))
               /\ ret' = [done |-> TRUE, ok |-> FALSE, device |-> "none",
                          detail |-> "none"]
    /\ pc' = "exit"
    /\ UNCHANGED auxVars
    /\ UNCHANGED << prog, env, args, device, actual_device, device_info, idx,
                    exc, engines, cacheCleared, uncaught >>

----------------------------------------------------------------------------
(* src/docs/testing/incremental_gpu_tester.py: test_single_file *)

\* Lines 53-54: a missing file yields an error record at once.
SingleStart ==
    /\ prog = "single" /\ pc = "sf_start"
    /\ IF ~PathExists(env)
       THEN /\ ret' = [done |-> TRUE, ok |-> FALSE, device |-> "none",
                       detail |-> "File not found"]
            /\ pc' = "exit"
       ELSE /\ pc' = "sf_load"
            /\ ret' = ret
    /\ UNCHANGED auxVars
    /\ UNCHANGED << prog, env, args, device, actual_device, device_info, idx,
                    exc, engines, cacheCleared, attempts, out, uncaught >>

\* Lines 56-62, 105-106: construct the engine on the given device; an
\* exception becomes the record {'error': str(e), 'device': device}.
SingleLoad ==
    /\ prog = "single" /\ pc = "sf_load"
    /\ Len(attempts) < MaxAttempts
    /\ LET d == args.device
       IN /\ attempts' = Append(attempts, Attempt(env, d, ComputeType(d)))
          /\ IF ConstructOk(env, d)
             THEN /\ engines' = engines \cup {d}
                  /\ cacheCleared' = FALSE
                  /\ pc' = "sf_transcribe"
                  /\ ret' = ret
             ELSE /\ ret' = [done |-> TRUE, ok |-> FALSE, device |-> d,
                             detail |-> env.con[d]]
                  /\ pc' = "exit"
                  /\ UNCHANGED << engines, cacheCleared >>
    /\ UNCHANGED auxVars
    /\ UNCHANGED << prog, env, args, device, actual_device, device_info, idx,
                    exc, out, uncaught >>

\* Lines 64-106: transcribe; on success delete the model and, on cuda, clear
\* the cache (98-101), then return the result. An exception skips the clean
\* up and becomes the error record.
SingleTranscribe ==
    /\ prog = "single" /\ pc = "sf_transcribe"
    /\ LET d == args.device
       IN IF TranscribeOk(env, d)
          THEN /\ engines' = engines \ {d}
               /\ cacheCleared' = IF d = "cuda" THEN TRUE ELSE cacheCleared
               /\ ret' = [done |-> TRUE, ok |-> TRUE, device |-> d,
                          detail |-> "none"]
               /\ attempts' = attempts
          ELSE /\ attempts' = FailLast(attempts, "TranscriptionExecutionFailed",
                                       env.tr[d])
               /\ ret' = [done |-> TRUE, ok |-> FALSE, device |-> d,
                          detail |-> env.tr[d]]
               /\ UNCHANGED << engines, cacheCleared >>
    /\ pc' = "exit"
    /\ UNCHANGED auxVars
    /\ UNCHANGED << prog, env, args, device, actual_device, device_info, idx,
                    exc, out, uncaught >>

----------------------------------------------------------------------------
(* Specification *)

ConOutcomes == [Devices -> {"ok"} \cup ConDetails]
TrOutcomes  == [Devices -> {"ok"} \cup TrDetails]
TrAllOk     == [d \in Devices |-> "ok"]

\* No result dict yet.
NoResult == [text |-> << >>, segments |-> << >>, duration |-> 0,
             processing_time |-> 0,
             real_time_factor |-> [num |-> 0, den |-> 1], built |-> FALSE]

\* A quotient not computed yet (a quotient is kept exact, as num/den).
NoQuotient == [num |-> 0, den |-> 1]

\* The environments each entry point can meet. Fields an entry point never
\* reads are held at one value. fileEmpty: the audio file has size zero (no
\* entry point looks at the size; the field only names the input).
Envs(p) ==
    CASE p = "main" ->
            [fileExists : BOOLEAN, fileEmpty : BOOLEAN, gpu : GpuProbes,
             con : ConOutcomes, tr : TrOutcomes, fwImport : BOOLEAN,
             torchImport : BOOLEAN]
      [] p = "validate" ->
            [fileExists : {TRUE}, fileEmpty : {FALSE}, gpu : {"present"},
             con : ConOutcomes, tr : {TrAllOk}, fwImport : BOOLEAN,
             torchImport : BOOLEAN]
      [] p = "simple" ->
            [fileExists : {TRUE}, fileEmpty : {FALSE}, gpu : {"present"},
             con : ConOutcomes, tr : {TrAllOk}, fwImport : {TRUE},
             torchImport : {TRUE}]
      [] OTHER ->
            [fileExists : BOOLEAN, fileEmpty : BOOLEAN, gpu : {"present"},
             con : ConOutcomes, tr : TrOutcomes, fwImport : {TRUE},
             torchImport : {TRUE}]

\* main: --device has choices auto, cpu, cuda (line 205); --output is not
\* given, so the document goes to stdout;
\* test_single_file: the callers pass "cpu" or "cuda".
Args(p) ==
    CASE p = "main" -> [device : {"auto", "cpu", "cuda"}]
      [] p = "single" -> [device : Devices]
      [] OTHER -> [device : {"none"}]

\* transcribe_audio_simple has not returned or raised.
NoSimpleRet == [kind |-> "none", detail |-> "none", text |-> << >>,
                model |-> "none"]

\* transcribe_audio_simple is not running.
SimpleIdle ==
    /\ spc = "idle" /\ senv = "none" /\ model_name = "none"
    /\ scalls = << >> /\ sout = << >> /\ sret = NoSimpleRet

\* smart_sample_files is not running.
SamplerIdle ==
    /\ mpc = "idle" /\ audio_members = << >> /\ max_files = 0
    /\ sorted_files = << >> /\ selected = << >> /\ sample_ret = << >>

\* A phase result before its loop: no file tested, empty summary.
NoPhase == [files_tested |-> << >>, summary |-> [keys |-> {}],
            comparison_with_cpu |-> [keys |-> {}], error |-> "none"]

\* The tester is not running.
TesterIdle ==
    /\ kphase = "none" /\ kpc = "idle" /\ test_files = << >>
    /\ cuda_available = FALSE /\ clock = "fine"
    /\ cpu_baseline = NoPhase /\ phase_results = NoPhase
    /\ device_times = << >> /\ successful_tests = 0
    /\ file_i = 0 /\ dev_i = 0 /\ kcalls = << >> /\ kraised = "none"

\* Lines 28-33: self.results of a fresh AudioBenchmark.
NoBench == [gpu_results |-> << >>, cpu_results |-> << >>,
            summary |-> [keys |-> {}, files_tested |-> 0]]

\* The benchmark is not running.
BenchIdle ==
    /\ bpc = "idle" /\ audio_dir = [exists |-> FALSE, sizes |-> << >>]
    /\ bcuda = FALSE /\ gputil = FALSE /\ gpu_load = << >>
    /\ bdevice = "none" /\ btest_files = << >> /\ bresults = << >>
    /\ bench = NoBench /\ bcalls = << >> /\ braised = "none" /\ saved = FALSE

\* None of the other scripts is running.
ScriptsIdle == SimpleIdle /\ SamplerIdle /\ TesterIdle /\ BenchIdle

\* No concurrent invocations.
ConcIdle ==
    /\ creq = << >> /\ cpc = << >> /\ cdev = << >> /\ cheld = << >>
    /\ pool = << >> /\ ctrail = << >> /\ cret = << >>

\* transcribe_audio's data and test_large_files are not running.
TranscribeIdle ==
    /\ tprog = "none" /\ tpc = "idle"
    /\ emitted = << >> /\ info_duration = 0 /\ elapsed = 0
    /\ seg_pos = 0 /\ transcript_segments = << >> /\ full_text = << >>
    /\ result = NoResult
    /\ files = << >> /\ file_pos = 0 /\ results = << >>
    /\ total_audio_duration = 0 /\ total_processing_time = 0
    /\ overall_speed = NoQuotient /\ zero_division = FALSE
    /\ stats_error = FALSE

\* The first statement of each entry point's function.
EntryPc(p) ==
    CASE p = "main" -> "main"
      [] p = "validate" -> "vf_import"
      [] p = "simple" -> "simple_gpu"
      [] OTHER -> "sf_start"

\* Where a run starts: gpu_transcribe.py is run as a script, so its
\* module-level statements come before main; the other entry points are
\* functions called by their scripts.
StartPc(p) == IF p = "main" THEN "import" ELSE EntryPc(p)

Init ==
    /\ prog \in Progs
    /\ env \in Envs(prog)
    /\ args \in Args(prog)
    /\ pc = StartPc(prog)
    /\ device = "none"
    /\ actual_device = "none"
    /\ device_info = NoInfo
    /\ idx = 0
    /\ exc = "none"
    /\ engines = {}
    /\ cacheCleared = FALSE
    /\ attempts = << >>
    /\ out = << >>
    /\ ret = NoRet
    /\ uncaught = FALSE
    /\ TranscribeIdle
    /\ first = NoFirst
    /\ ConcIdle
    /\ ScriptsIdle

Next ==
    \/ ModuleImport
    \/ MainStart
    \/ LoadModelSelect
    \/ LoadModelTry
    \/ LoadModelExcept
    \/ TranscribeAudio
    \/ MainOutput
    \/ MainExcept
    \/ ValidateImport
    \/ ValidateTry
    \/ ValidateExhausted
    \/ SimpleTryGpu
    \/ SimpleCpuFallback
    \/ SingleStart
    \/ SingleLoad
    \/ SingleTranscribe

Spec == Init /\ [][Next]_vars

TypeOK ==
    /\ prog \in Progs
    /\ pc \in {"import", "main", "load_model", "lm_try", "lm_except", "transcribe",
               "output", "main_except", "vf_import", "vf_loop", "simple_gpu",
               "simple_except", "sf_start", "sf_load", "sf_transcribe", "exit"}
    /\ engines \subseteq Devices
    /\ Len(attempts) <= MaxAttempts

----------------------------------------------------------------------------
(* transcribe_audio's result (src/src/gpu_transcribe.py 144-191) and         *)
(* test_large_files' statistics (test_large_files_gpu.py 50-181).            *)
(* A text is a sequence of characters; a time is a number of clock ticks; a *)
(* quotient is kept exact as a pair num/den.                                 *)

MaxSegs == 2
MaxTextLen == 3
MaxTicks == 2
MaxFiles == 2

Chars == {"a", " "}
Texts == UNION {[1..n -> Chars] : n \in 0..MaxTextLen}
Ticks == 0..MaxTicks

IsSpace(c) == c = " "

RECURSIVE LStrip(_)
LStrip(t) ==
    IF t = << >> THEN << >>
    ELSE IF IsSpace(Head(t)) THEN LStrip(Tail(t)) ELSE t

RECURSIVE RStrip(_)
RStrip(t) ==
    IF t = << >> THEN << >>
    ELSE IF IsSpace(t[Len(t)]) THEN RStrip(SubSeq(t, 1, Len(t) - 1)) ELSE t

\* str.strip()
Strip(t) == RStrip(LStrip(t))

\* Variant: the pieces are glued without a separator.
AddTextGlued(full, t) == full \o Strip(t)

\* transcribe_audio line 171: full_text += segment.text.strip() + " "
AddText(full, t) == full \o Strip(t) \o << " " >>

\* `n / d if d > 0 else 0` (transcribe_audio line 177, test_large_files 76)
GuardedQuotient(n, d) ==
    IF d > 0 THEN [num |-> n, den |-> d] ELSE [num |-> 0, den |-> 1]

\* What the engine can emit: up to MaxSegs segments in time order, each with
\* its start time and its raw text.
Emissions ==
    UNION { { e \in [1..n -> [start : 1..MaxSegs, text : Texts]] :
                \A k \in 1..n : e[k].start = k } : n \in 0..MaxSegs }

\* test_large_files: tests/audio_samples/*.mp3, per file the audio duration
\* and the processing time the clock will measure.
FileLists ==
    UNION {[1..n -> [duration : Ticks, processing_time : Ticks]] :
              n \in 0..MaxFiles}

\* transcribe_audio lines 160-171: one turn of `for segment in segments`.
CollectSegment ==
    /\ tprog = "transcribe_audio" /\ tpc = "loop"
    /\ seg_pos < Len(emitted)
    /\ LET segment == emitted[seg_pos + 1] IN
          /\ transcript_segments' =
                Append(transcript_segments,
                       [start |-> segment.start, text |-> Strip(segment.text)])
          /\ full_text' = AddText(full_text, segment.text)
    /\ seg_pos' = seg_pos + 1
    /\ UNCHANGED << tprog, tpc, emitted, info_duration, elapsed, result, files,
                    file_pos, results, total_audio_duration,
                    total_processing_time, overall_speed, zero_division,
                    stats_error >>
    /\ UNCHANGED notTranscribeVars

\* transcribe_audio lines 173-191: the loop is over; timing, real-time
\* factor and the result dict.
BuildResult ==
    /\ tprog = "transcribe_audio" /\ tpc = "loop"
    /\ seg_pos = Len(emitted)
    /\ LET processing_time == elapsed
           audio_duration == info_duration
           real_time_factor == GuardedQuotient(audio_duration, processing_time)
       IN  result' = [text |-> Strip(full_text),
                      segments |-> transcript_segments,
                      duration |-> audio_duration,
                      processing_time |-> processing_time,
                      real_time_factor |-> real_time_factor,
                      built |-> TRUE]
    /\ tpc' = "done"
    /\ UNCHANGED << tprog, emitted, info_duration, elapsed, seg_pos,
                    transcript_segments, full_text, files, file_pos, results,
                    total_audio_duration, total_processing_time, overall_speed,
                    zero_division,
                    stats_error >>
    /\ UNCHANGED notTranscribeVars

\* test_large_files lines 58-99: one turn of `for i, audio_file in ...`.
ProcessFile ==
    /\ tprog = "test_large_files" /\ tpc = "files"
    /\ file_pos < Len(files)
    /\ LET processing_time == files[file_pos + 1].processing_time
           duration == files[file_pos + 1].duration
           speed_ratio == GuardedQuotient(duration, processing_time)
       IN  /\ results' = Append(results,
                                [duration |-> duration,
                                 processing_time |-> processing_time,
                                 speed_ratio |-> speed_ratio])
           /\ total_audio_duration' = total_audio_duration + duration
           /\ total_processing_time' = total_processing_time + processing_time
    /\ file_pos' = file_pos + 1
    /\ UNCHANGED << tprog, tpc, emitted, info_duration, elapsed, seg_pos,
                    transcript_segments, full_text, result, files,
                    overall_speed, zero_division,
                    stats_error >>
    /\ UNCHANGED notTranscribeVars

\* test_large_files line 110:
\* overall_speed = total_audio_duration / total_processing_time
OverallSpeed ==
    /\ tprog = "test_large_files" /\ tpc = "files"
    /\ file_pos = Len(files)
    /\ IF total_processing_time = 0
       THEN /\ zero_division' = TRUE
            /\ tpc' = "raised"
            /\ UNCHANGED overall_speed
       ELSE /\ overall_speed' = [num |-> total_audio_duration,
                                 den |-> total_processing_time]
            /\ tpc' = "report"
            /\ UNCHANGED zero_division
    /\ UNCHANGED << tprog, emitted, info_duration, elapsed, seg_pos,
                    transcript_segments, full_text, result, files, file_pos,
                    results, total_audio_duration, total_processing_time,
                    stats_error >>
    /\ UNCHANGED notTranscribeVars

\* test_large_files lines 112-181: the printed report, then `return
\* results`. statistics.stdev (line 117) raises StatisticsError on fewer than
\* two speed ratios; line 128 divides by total_audio_duration without a
\* guard. The means and the other divisions have a non-empty list and a
\* non-zero divisor here: a file was processed.
Report ==
    /\ tprog = "test_large_files" /\ tpc = "report"
    /\ IF Len(results) < 2
       THEN /\ stats_error' = TRUE
            /\ tpc' = "raised"
            /\ UNCHANGED zero_division
       ELSE IF total_audio_duration = 0
       THEN /\ zero_division' = TRUE
            /\ tpc' = "raised"
            /\ UNCHANGED stats_error
       ELSE /\ tpc' = "done"
            /\ UNCHANGED << zero_division, stats_error >>
    /\ UNCHANGED << tprog, emitted, info_duration, elapsed, seg_pos,
                    transcript_segments, full_text, result, files, file_pos,
                    results, total_audio_duration, total_processing_time,
                    overall_speed >>
    /\ UNCHANGED notTranscribeVars

\* The device selection is not running.
RunnerIdle ==
    /\ prog = "none" /\ env = "none" /\ args = "none" /\ pc = "idle"
    /\ device = "none" /\ actual_device = "none" /\ device_info = NoInfo
    /\ idx = 0 /\ exc = "none" /\ engines = {} /\ cacheCleared = FALSE
    /\ attempts = << >> /\ out = << >> /\ ret = NoRet /\ uncaught = FALSE

InitTranscribe ==
    /\ RunnerIdle
    /\ first = NoFirst
    /\ ConcIdle
    /\ ScriptsIdle
    /\ tprog \in {"transcribe_audio", "test_large_files"}
    /\ tpc = IF tprog = "transcribe_audio" THEN "loop" ELSE "files"
    /\ emitted \in (IF tprog = "transcribe_audio" THEN Emissions ELSE {<< >>})
    /\ info_duration \in (IF tprog = "transcribe_audio" THEN Ticks ELSE {0})
    /\ elapsed \in (IF tprog = "transcribe_audio" THEN Ticks ELSE {0})
    /\ files \in (IF tprog = "test_large_files" THEN FileLists ELSE {<< >>})
    /\ seg_pos = 0 /\ transcript_segments = << >> /\ full_text = << >>
    /\ result = NoResult
    /\ file_pos = 0 /\ results = << >>
    /\ total_audio_duration = 0 /\ total_processing_time = 0
    /\ overall_speed = NoQuotient /\ zero_division = FALSE
    /\ stats_error = FALSE

NextTranscribe ==
    \/ CollectSegment
    \/ BuildResult
    \/ ProcessFile
    \/ OverallSpeed
    \/ Report

SpecTranscribe == InitTranscribe /\ [][NextTranscribe]_vars

----------------------------------------------------------------------------
(* Several invocations of main's load / transcribe / clean-up sequence     *)
(* under way at once (threads or processes of one machine). The code       *)
(* shares nothing between invocations: every variable of load_model and    *)
(* main is a local. What they share is the machine: each device has one    *)
(* finite memory pool, and an engine under construction draws its memory   *)
(* from the pool of its device one unit at a time.                         *)

NumInv == 2
EngineUnits == 2

Invocations == 1..NumInv

\* The pool an engine on device d draws from: the device's own memory.
PoolOf(d) == d

\* The accelerator holds one engine; host memory holds one per invocation.
Capacity(p) == IF p = "cuda" THEN EngineUnits ELSE NumInv * EngineUnits

\* Variant: a construction waits until no other engine is being built.
AdmitOneAtATime(i) ==
    \A j \in Invocations \ {i} : cheld[j][cdev[i]] = 0

\* load_model lines 92-109: WhisperModel(...) is called at once; there is no
\* lock, queue or memory check in front of it.
Admit(i) == TRUE

ConcAttempt(d, ok, detail) ==
    [device |-> d, outcome |-> IF ok THEN "success" ELSE "failure",
     detail |-> detail]

NoConcRet == [done |-> FALSE, ok |-> FALSE, device |-> "none"]

\* The environments of the concurrent invocations: the file exists, a GPU is
\* detected, transcription works; construction on each device works or not.
ConcEnvs ==
    [fileExists : {TRUE}, fileEmpty : {FALSE}, gpu : {"present"},
     con : ConOutcomes, tr : {TrAllOk}, fwImport : {TRUE},
     torchImport : {TRUE}]

\* load_model lines 79-90 for invocation i (a GPU is detected).
ConcSelect(i) ==
    /\ cpc[i] = "load_model"
    /\ cdev' = [cdev EXCEPT ![i] = RequestedDevice(creq[i], TRUE)]
    /\ cpc' = [cpc EXCEPT ![i] = "construct"]
    /\ UNCHANGED << creq, cheld, pool, ctrail, cret >>
    /\ UNCHANGED << runnerVars, transcribeVars, first, scriptVars >>

\* The units of pool p that invocation i's engines hold.
HeldIn(i, p) ==
    (IF PoolOf("cuda") = p THEN cheld[i]["cuda"] ELSE 0)
    + (IF PoolOf("cpu") = p THEN cheld[i]["cpu"] ELSE 0)

\* load_model lines 92-120 for invocation i: one step of WhisperModel(...).
\* The constructor raises what the provider raises on that device, or takes
\* one more unit of the device's memory, or raises for lack of memory; what
\* it took stays with the failed engine object. When the construction of the
\* fallback is complete, load_model(model_size, 'cpu') returns at line 128,
\* the handler is left and the engine that failed on cuda, kept alive until
\* then by the exception being handled, is gone: its memory is back.
ConcConstruct(i) ==
    /\ cpc[i] = "construct"
    /\ Admit(i)
    /\ LET d == cdev[i]
           p == PoolOf(d)
       IN  IF ~ConstructOk(env, d)
           THEN /\ ctrail' = [ctrail EXCEPT ![i] =
                                 Append(@, ConcAttempt(d, FALSE, env.con[d]))]
                /\ cpc' = [cpc EXCEPT ![i] = "lm_except"]
                /\ UNCHANGED << cheld, pool >>
           ELSE IF pool[p] = 0
           THEN /\ ctrail' = [ctrail EXCEPT ![i] =
                                 Append(@, ConcAttempt(d, FALSE, "OutOfMemory"))]
                /\ cpc' = [cpc EXCEPT ![i] = "lm_except"]
                /\ UNCHANGED << cheld, pool >>
           ELSE IF cheld[i][d] + 1 < EngineUnits
           THEN /\ pool' = [pool EXCEPT ![p] = @ - 1]
                /\ cheld' = [cheld EXCEPT ![i][d] = @ + 1]
                /\ UNCHANGED << ctrail, cpc >>
           ELSE /\ cheld' = [cheld EXCEPT ![i] =
                                [e \in Devices |->
                                    IF e = d THEN cheld[i][d] + 1 ELSE 0]]
                /\ pool' = [q \in Devices |->
                                pool[q] + HeldIn(i, q)
                                - (IF q = p THEN cheld[i][d] + 1 ELSE 0)]
                /\ ctrail' = [ctrail EXCEPT ![i] =
                                 Append(@, ConcAttempt(d, TRUE, "none"))]
                /\ cpc' = [cpc EXCEPT ![i] = "transcribe"]
    /\ UNCHANGED << creq, cdev, cret >>
    /\ UNCHANGED << runnerVars, transcribeVars, first, scriptVars >>

\* load_model lines 122-130 for invocation i: fall back to cpu, or re-raise
\* into main's handler (lines 259-261). The handler releases nothing: the
\* failed engine keeps its memory while load_model(model_size, 'cpu') runs,
\* and until sys.exit(1) has left main when the exception is re-raised.
ConcExcept(i) ==
    /\ cpc[i] = "lm_except"
    /\ IF FallsBack(cdev[i])
       THEN /\ cdev' = [cdev EXCEPT ![i] = FallbackDevice]
            /\ cpc' = [cpc EXCEPT ![i] = "construct"]
            /\ UNCHANGED << cret, cheld, pool >>
       ELSE /\ cret' = [cret EXCEPT ![i] =
                           [done |-> TRUE, ok |-> FALSE, device |-> "none"]]
            /\ cpc' = [cpc EXCEPT ![i] = "exit"]
            /\ pool' = [q \in Devices |-> pool[q] + HeldIn(i, q)]
            /\ cheld' = [cheld EXCEPT ![i] = [e \in Devices |-> 0]]
            /\ UNCHANGED cdev
    /\ UNCHANGED << creq, ctrail >>
    /\ UNCHANGED << runnerVars, transcribeVars, first, scriptVars >>

\* main lines 223-257 for invocation i: transcribe and print; the script
\* ends and the memory of its engine is back.
ConcFinish(i) ==
    /\ cpc[i] = "transcribe"
    /\ cret' = [cret EXCEPT ![i] =
                   [done |-> TRUE, ok |-> TRUE, device |-> cdev[i]]]
    /\ pool' = [q \in Devices |-> pool[q] + HeldIn(i, q)]
    /\ cheld' = [cheld EXCEPT ![i] = [e \in Devices |-> 0]]
    /\ cpc' = [cpc EXCEPT ![i] = "exit"]
    /\ UNCHANGED << creq, cdev, ctrail >>
    /\ UNCHANGED << runnerVars, transcribeVars, first, scriptVars >>

InitConc ==
    /\ prog = "none" /\ args = "none" /\ pc = "idle"
    /\ env \in ConcEnvs
    /\ device = "none" /\ actual_device = "none" /\ device_info = NoInfo
    /\ idx = 0 /\ exc = "none" /\ engines = {} /\ cacheCleared = FALSE
    /\ attempts = << >> /\ out = << >> /\ ret = NoRet /\ uncaught = FALSE
    /\ TranscribeIdle
    /\ first = NoFirst
    /\ ScriptsIdle
    /\ creq \in [Invocations -> Devices]
    /\ cpc = [i \in Invocations |-> "load_model"]
    /\ cdev = [i \in Invocations |-> "none"]
    /\ cheld = [i \in Invocations |-> [d \in Devices |-> 0]]
    /\ pool = [p \in Devices |-> Capacity(p)]
    /\ ctrail = [i \in Invocations |-> << >>]
    /\ cret = [i \in Invocations |-> NoConcRet]

NextConc ==
    \E i \in Invocations :
        \/ ConcSelect(i)
        \/ ConcConstruct(i)
        \/ ConcExcept(i)
        \/ ConcFinish(i)

SpecConc == InitConc /\ [][NextConc]_vars

\* What one construction on device d does when nothing else uses the machine.
AloneAttempt(e, d) ==
    IF ~ConstructOk(e, d) THEN ConcAttempt(d, FALSE, e.con[d])
    ELSE IF Capacity(PoolOf(d)) < EngineUnits
         THEN ConcAttempt(d, FALSE, "OutOfMemory")
         ELSE ConcAttempt(d, TRUE, "none")

\* The trail of an invocation asked for device req, run alone.
AloneTrail(e, req) ==
    LET a1 == AloneAttempt(e, req) IN
    IF a1.outcome = "success" \/ ~FallsBack(req) THEN << a1 >>
    ELSE << a1, AloneAttempt(e, FallbackDevice) >>

\* What that invocation's caller receives, run alone.
AloneRet(e, req) ==
    LET t == AloneTrail(e, req)
        last == t[Len(t)]
    IN  IF last.outcome = "success"
        THEN [done |-> TRUE, ok |-> TRUE, device |-> last.device]
        ELSE [done |-> TRUE, ok |-> FALSE, device |-> "none"]

----------------------------------------------------------------------------
(* transcribe_audio_simple (src/src/simple_audio_transcription.py 36-94):  *)
(* openai-whisper with an offline placeholder when the model cannot be     *)
(* used.                                                                   *)

\* Nothing of the device selection, transcribe_audio, the second call or the
\* concurrent invocations is running.
CoreIdle == RunnerIdle /\ TranscribeIdle /\ first = NoFirst /\ ConcIdle

\* What `import whisper` does: it works, the package is missing, or the
\* package breaks while it is imported.
ImportOutcomes == {"ok", "ImportError", "RuntimeError"}

\* ~/.cache/whisper: missing, without a .pt file, with a tiny model, with
\* other models only, or not listable.
CacheStates == {"absent", "empty", "tiny", "base_only", "listdir_error"}

\* whisper.load_model and model.transcribe: each works or raises; a result
\* can come back without its "text" key.
LoadOutcomes == {"ok", "DownloadError"}
TranscribeOutcomes == {"ok", "DecodeError", "no_text_key"}

\* The texts whisper can return.
ResultTexts == {<< "a" >>, << " ", "a", " " >>}

SimpleEnvs ==
    [fileExists : BOOLEAN, import : ImportOutcomes, cache : CacheStates,
     load : LoadOutcomes, transcribe : TranscribeOutcomes,
     text : ResultTexts]

\* create_dummy_transcription (lines 13-34): the offline placeholder.
create_dummy_transcription(e) ==
    [kind |-> "offline", detail |-> IF e.fileExists THEN "size" ELSE "unknown",
     text |-> << >>, model |-> "none"]

\* Lines 72-82: the markdown of a real transcription.
Markdown(text, name) ==
    [kind |-> "transcription", detail |-> "none", text |-> Strip(text),
     model |-> name]

\* Variant: only a missing package is caught by the outer handlers.
OuterCatchesImportOnly(x) == x = "ImportError"

\* Lines 89-94: `except ImportError` and `except Exception` together.
OuterCatches(x) == TRUE

\* Line 84: `except Exception as model_error`.
InnerCatches(x) == TRUE

\* Lines 89-94: what the outer handlers print and return for exception x.
OuterHandler(x) ==
    IF OuterCatches(x)
    THEN /\ sout' = Append(sout, IF x = "ImportError"
                                 THEN "whisper_not_available"
                                 ELSE "transcription_error")
         /\ sret' = create_dummy_transcription(senv)
    ELSE /\ sret' = [kind |-> "raise", detail |-> x, text |-> << >>,
                     model |-> "none"]
         /\ UNCHANGED sout

\* Lines 40-41: the existence check.
SimpleStart ==
    /\ spc = "start"
    /\ IF senv.fileExists
       THEN /\ spc' = "import"
            /\ UNCHANGED sret
       ELSE /\ sret' = [kind |-> "raise", detail |-> "FileNotFoundError",
                        text |-> << >>, model |-> "none"]
            /\ spc' = "exit"
    /\ UNCHANGED << senv, model_name, scalls, sout >>
    /\ UNCHANGED notSimpleVars

\* Line 45: import whisper.
SimpleImport ==
    /\ spc = "import"
    /\ scalls' = Append(scalls, "import")
    /\ IF senv.import = "ok"
       THEN /\ spc' = "select"
            /\ UNCHANGED << sout, sret >>
       ELSE /\ OuterHandler(senv.import)
            /\ spc' = "exit"
    /\ UNCHANGED << senv, model_name >>
    /\ UNCHANGED notSimpleVars

\* Lines 48-61: look for a cached model and settle model_name.
SimpleSelectModel ==
    /\ spc = "select"
    /\ scalls' = IF senv.cache = "absent" THEN scalls
                 ELSE Append(scalls, "listdir")
    /\ IF senv.cache = "listdir_error"
       THEN /\ OuterHandler("OSError")
            /\ spc' = "exit"
            /\ UNCHANGED model_name
       ELSE /\ model_name' = IF senv.cache = "base_only" THEN "base" ELSE "tiny"
            /\ sout' = Append(sout, IF senv.cache \in {"tiny", "base_only"}
                                    THEN "using_cached_model"
                                    ELSE "attempting_download")
            /\ spc' = "load"
            /\ UNCHANGED sret
    /\ UNCHANGED senv
    /\ UNCHANGED notSimpleVars

\* What the inner handler (lines 84-87) does with exception x.
InnerHandler(x) ==
    IF InnerCatches(x)
    THEN /\ sout' = Append(sout, "model_failed")
         /\ sret' = create_dummy_transcription(senv)
    ELSE OuterHandler(x)

\* Line 64: whisper.load_model(model_name).
SimpleLoad ==
    /\ spc = "load"
    /\ scalls' = Append(scalls, "load_model")
    /\ IF senv.load = "ok"
       THEN /\ spc' = "transcribe"
            /\ UNCHANGED << sout, sret >>
       ELSE /\ InnerHandler(senv.load)
            /\ spc' = "exit"
    /\ UNCHANGED << senv, model_name >>
    /\ UNCHANGED notSimpleVars

\* Lines 65-87: model.transcribe, the markdown, or the inner handler.
SimpleTranscribe ==
    /\ spc = "transcribe"
    /\ scalls' = Append(scalls, "transcribe")
    /\ IF senv.transcribe = "ok"
       THEN /\ sret' = Markdown(senv.text, model_name)
            /\ UNCHANGED sout
       ELSE InnerHandler(IF senv.transcribe = "no_text_key" THEN "KeyError"
                         ELSE senv.transcribe)
    /\ spc' = "exit"
    /\ UNCHANGED << senv, model_name >>
    /\ UNCHANGED notSimpleVars

InitSimple ==
    /\ CoreIdle
    /\ SamplerIdle
    /\ TesterIdle
    /\ BenchIdle
    /\ spc = "start"
    /\ senv \in SimpleEnvs
    /\ model_name = "none"
    /\ scalls = << >> /\ sout = << >> /\ sret = NoSimpleRet

NextSimple ==
    \/ SimpleStart
    \/ SimpleImport
    \/ SimpleSelectModel
    \/ SimpleLoad
    \/ SimpleTranscribe

SpecSimple == InitSimple /\ [][NextSimple]_vars

----------------------------------------------------------------------------
(* DirectAudioSampler.smart_sample_files                                   *)
(* (src/docs/testing/direct_audio_sampler.py 77-100). A member of the      *)
(* archive is named by its position in the input list; audio_members[i] is *)
(* its size.                                                               *)

MaxMembers == 6
MaxSize == 2
MaxMaxFiles == 7

\* Lines 89, 93, 97: at most five files are drawn from a size range.
BucketQuota == 5

MemberLists == UNION {[1..n -> 1..MaxSize] : n \in 0..MaxMembers}

Min2(a, b) == IF a <= b THEN a ELSE b

Range(q) == {q[i] : i \in DOMAIN q}

\* Member m put into the list q, ordered by size, behind every member that is
\* not larger (sorted() is stable).
RECURSIVE InsertBySize(_, _, _)
InsertBySize(q, m, sz) ==
    IF q = << >> THEN << m >>
    ELSE IF sz[Head(q)] <= sz[m]
         THEN << Head(q) >> \o InsertBySize(Tail(q), m, sz)
         ELSE << m >> \o q

\* Line 80: sorted(audio_members, key=lambda x: x.size), first k members.
RECURSIVE SortBySize(_, _)
SortBySize(sz, k) ==
    IF k = 0 THEN << >>
    ELSE InsertBySize(SortBySize(sz, k - 1), k, sz)

\* The slice q[a:b] for 0 <= a <= b.
Slice(q, a, b) == SubSeq(q, a + 1, Min2(b, Len(q)))

\* Variant: the middle range starts at the first file.
MediumStartOverlap(n) == 0

\* Line 92: where the middle range starts.
MediumStart(n) == n \div 3

\* Lines 88, 92, 96: the three size ranges.
small_files == Slice(sorted_files, 0, Len(sorted_files) \div 3)
medium_files ==
    Slice(sorted_files, MediumStart(Len(sorted_files)),
          (2 * Len(sorted_files)) \div 3)
large_files ==
    Slice(sorted_files, (2 * Len(sorted_files)) \div 3, Len(sorted_files))

\* random.sample(q, k): any k distinct elements of q in any order.
RandomSamples(q, k) ==
    {c \in [1..k -> Range(q)] : \A i, j \in 1..k : i # j => c[i] # c[j]}

\* Lines 80-83: sort; a short list is returned whole.
SmartSort ==
    /\ mpc = "sort"
    /\ LET q == SortBySize(audio_members, Len(audio_members)) IN
          /\ sorted_files' = q
          /\ IF Len(q) <= max_files
             THEN /\ sample_ret' = q
                  /\ mpc' = "returned"
             ELSE /\ mpc' = "small"
                  /\ UNCHANGED sample_ret
    /\ UNCHANGED << audio_members, max_files, selected >>
    /\ UNCHANGED notSamplerVars

\* Lines 85-89: selected = [] and the draw from the small files.
SampleSmall ==
    /\ mpc = "small"
    /\ \E c \in RandomSamples(small_files, Min2(BucketQuota, Len(small_files))) :
          selected' = c
    /\ mpc' = "medium"
    /\ UNCHANGED << audio_members, max_files, sorted_files, sample_ret >>
    /\ UNCHANGED notSamplerVars

\* Lines 92-93: the draw from the medium files.
SampleMedium ==
    /\ mpc = "medium"
    /\ \E c \in RandomSamples(medium_files,
                              Min2(BucketQuota, Len(medium_files))) :
          selected' = selected \o c
    /\ mpc' = "large"
    /\ UNCHANGED << audio_members, max_files, sorted_files, sample_ret >>
    /\ UNCHANGED notSamplerVars

\* Lines 96-100: the draw from the large files and return selected[:max_files].
SampleLarge ==
    /\ mpc = "large"
    /\ \E c \in RandomSamples(large_files, Min2(BucketQuota, Len(large_files))) :
          /\ selected' = selected \o c
          /\ sample_ret' = Slice(selected \o c, 0, max_files)
    /\ mpc' = "returned"
    /\ UNCHANGED << audio_members, max_files, sorted_files >>
    /\ UNCHANGED notSamplerVars

InitSampler ==
    /\ CoreIdle
    /\ SimpleIdle
    /\ TesterIdle
    /\ BenchIdle
    /\ mpc = "sort"
    /\ audio_members \in MemberLists
    /\ max_files \in 0..MaxMaxFiles
    /\ sorted_files = << >> /\ selected = << >> /\ sample_ret = << >>

NextSampler ==
    \/ SmartSort
    \/ SampleSmall
    \/ SampleMedium
    \/ SampleLarge

SpecSampler == InitSampler /\ [][NextSampler]_vars

----------------------------------------------------------------------------
(* IncrementalGPUTester: run_phase_1_cpu_baseline, run_phase_2_gpu_comparison *)
(* and run_phase_3_larger_files as main calls them                         *)
(* (src/docs/testing/incremental_gpu_tester.py 108-331, 343-375).          *)
(* A file of the manifest is named by its position in test_files. A result *)
(* dict carries, besides the keys the code reads, the file it was measured *)
(* on (`file`), which the code does not store.                             *)

MaxManifest == 6

\* Lines 123 and 187: test_files[:5].
Phase1Files == 5
Phase2Files == 5

FileNames == {"a.mp3", "b.mp3"}

\* Per file of the manifest: its filename and whether test_single_file
\* succeeds on it on each device.
FileInfos(names) == [filename : names, ok : [Devices -> BOOLEAN]]

Manifests(names, lens) == UNION {[1..n -> FileInfos(names)] : n \in lens}

\* transcribe_time as the clock measures it for file f on device d: the cpu
\* takes longer on later files; a coarse clock measures 0 on the GPU.
TranscribeTime(f, d) ==
    IF d = "cpu" THEN f + 1 ELSE IF clock = "coarse" THEN 0 ELSE f

\* test_single_file (lines 51-106) on file f: the result dict.
test_single_file(f, d) ==
    IF test_files[f].ok[d]
    THEN [success |-> TRUE, device |-> d,
          transcribe_time |-> TranscribeTime(f, d), file |-> f]
    ELSE [success |-> FALSE, device |-> d, transcribe_time |-> 0, file |-> f]

NoComparison == [present |-> FALSE]
NoFallback == [present |-> FALSE]

RECURSIVE SumSeq(_)
SumSeq(q) == IF q = << >> THEN 0 ELSE Head(q) + SumSeq(Tail(q))

\* Lines 151-157 and 237-243: the summary of a phase with at least one time.
Summary(n, times, avg_key) ==
    [keys |-> {"successful_tests", avg_key}, successful_tests |-> n,
     average |-> [num |-> SumSeq(times), den |-> Len(times)],
     total |-> SumSeq(times)]

\* The keys of the dict run_phase_1_cpu_baseline returns (lines 113-117).
BaselineKeys == {"phase", "files_tested", "summary"}

\* Lines 108-123: phase 1 starts.
Phase1Start ==
    /\ kphase = "phases_1_2" /\ kpc = "p1_start"
    /\ phase_results' = NoPhase
    /\ device_times' = << >>
    /\ successful_tests' = 0
    /\ file_i' = 0
    /\ kpc' = "p1_loop"
    /\ UNCHANGED << kphase, test_files, cuda_available, clock, cpu_baseline,
                    dev_i, kcalls, kraised >>
    /\ UNCHANGED notTesterVars

\* Lines 125-148: one turn of phase 1's loop over test_files[:5].
Phase1File ==
    /\ kphase = "phases_1_2" /\ kpc = "p1_loop"
    /\ file_i < Len(Slice(test_files, 0, Phase1Files))
    /\ LET f == file_i + 1
           res == test_single_file(f, "cpu")
       IN  /\ kcalls' = Append(kcalls, [phase |-> 1, file |-> f, device |-> "cpu"])
           /\ device_times' = IF res.success
                              THEN Append(device_times, res.transcribe_time)
                              ELSE device_times
           /\ successful_tests' = IF res.success THEN successful_tests + 1
                                  ELSE successful_tests
           /\ phase_results' =
                 [phase_results EXCEPT !.files_tested =
                     Append(@, [filename |-> test_files[f].filename,
                                result |-> res])]
    /\ file_i' = file_i + 1
    /\ UNCHANGED << kphase, kpc, test_files, cuda_available, clock,
                    cpu_baseline, dev_i, kraised >>
    /\ UNCHANGED notTesterVars

\* Lines 150-165 and main 360-361: phase 1's summary and return.
Phase1Summary ==
    /\ kphase = "phases_1_2" /\ kpc = "p1_loop"
    /\ file_i = Len(Slice(test_files, 0, Phase1Files))
    /\ cpu_baseline' =
          IF device_times # << >>
          THEN [phase_results EXCEPT !.summary =
                   Summary(successful_tests, device_times, "average_cpu_time")]
          ELSE phase_results
    /\ kpc' = "p2_start"
    /\ UNCHANGED << kphase, test_files, cuda_available, clock, phase_results,
                    device_times, successful_tests, file_i, dev_i, kcalls,
                    kraised >>
    /\ UNCHANGED notTesterVars

\* Lines 167-187: phase 2 starts, or returns at once without CUDA.
Phase2Start ==
    /\ kphase = "phases_1_2" /\ kpc = "p2_start"
    /\ IF ~cuda_available
       THEN /\ phase_results' = [NoPhase EXCEPT !.error = "CUDA not available"]
            /\ kpc' = "done"
       ELSE /\ phase_results' = NoPhase
            /\ kpc' = "p2_loop"
    /\ device_times' = << >>
    /\ successful_tests' = 0
    /\ file_i' = 0
    /\ UNCHANGED << kphase, test_files, cuda_available, clock, cpu_baseline,
                    dev_i, kcalls, kraised >>
    /\ UNCHANGED notTesterVars

\* Variant: every file is compared with the baseline's first entry.
BaselineIndexFirst(i) == 0

\* Line 206: the baseline entry a file is compared with.
BaselineIndex(i) == i

\* Variant: the cpu is tried again after every cuda run.
TriesFallbackAlways(res) == TRUE

\* Lines 221-226: the cpu fallback is tried when the cuda run did not succeed.
TriesFallback(res) == ~res.success

\* Lines 203-217: the comparison attached to a successful cuda result.
Comparison(i, res) ==
    IF i < Len(cpu_baseline.files_tested)
    THEN LET cpu_file_result ==
                 cpu_baseline.files_tested[BaselineIndex(i) + 1].result
         IN  IF cpu_file_result.success
             THEN [present |-> TRUE,
                   cpu_time |-> cpu_file_result.transcribe_time,
                   gpu_time |-> res.transcribe_time,
                   speedup |-> GuardedQuotient(cpu_file_result.transcribe_time,
                                               res.transcribe_time),
                   cpu_file |-> cpu_file_result.file,
                   gpu_file |-> res.file]
             ELSE NoComparison
    ELSE NoComparison

\* Lines 189-233: one turn of phase 2's loop over test_files[:5]. The keys
\* the code adds to the result dict (cpu_comparison, cpu_fallback) are kept
\* beside it in the entry.
Phase2File ==
    /\ kphase = "phases_1_2" /\ kpc = "p2_loop"
    /\ file_i < Len(Slice(test_files, 0, Phase2Files))
    /\ LET f == file_i + 1
           res == test_single_file(f, "cuda")
           fb == test_single_file(f, "cpu")
           cudaCall == [phase |-> 2, file |-> f, device |-> "cuda"]
           cpuCall == [phase |-> 2, file |-> f, device |-> "cpu"]
       IN  /\ kcalls' = IF TriesFallback(res)
                        THEN kcalls \o << cudaCall, cpuCall >>
                        ELSE Append(kcalls, cudaCall)
           /\ device_times' = IF res.success
                              THEN Append(device_times, res.transcribe_time)
                              ELSE device_times
           /\ successful_tests' = IF res.success THEN successful_tests + 1
                                  ELSE successful_tests
           /\ phase_results' =
                 [phase_results EXCEPT !.files_tested =
                     Append(@, [filename |-> test_files[f].filename,
                                result |-> res,
                                cpu_comparison |->
                                    IF res.success THEN Comparison(file_i, res)
                                    ELSE NoComparison,
                                cpu_fallback |->
                                    IF TriesFallback(res) /\ fb.success
                                    THEN [present |-> TRUE, result |-> fb]
                                    ELSE NoFallback])]
    /\ file_i' = file_i + 1
    /\ UNCHANGED << kphase, kpc, test_files, cuda_available, clock,
                    cpu_baseline, dev_i, kraised >>
    /\ UNCHANGED notTesterVars

\* Lines 235-270: phase 2's summary, the comparison with the baseline's
\* summary, and return. cpu_baseline['summary']['average_cpu_time'] raises
\* KeyError when the baseline's summary has no such key.
Phase2Summary ==
    /\ kphase = "phases_1_2" /\ kpc = "p2_loop"
    /\ file_i = Len(Slice(test_files, 0, Phase2Files))
    /\ IF device_times = << >>
       THEN UNCHANGED << phase_results, kraised >>
       ELSE LET summary == Summary(successful_tests, device_times,
                                   "average_gpu_time")
                withSummary == [phase_results EXCEPT !.summary = summary]
            IN  IF "summary" \in BaselineKeys
                THEN IF "average_cpu_time" \in cpu_baseline.summary.keys
                     THEN /\ phase_results' =
                                [withSummary EXCEPT !.comparison_with_cpu =
                                    [keys |-> {"overall_speedup"},
                                     cpu_average |-> cpu_baseline.summary.average,
                                     gpu_average |-> summary.average]]
                          /\ UNCHANGED kraised
                     ELSE /\ kraised' = "KeyError"
                          /\ phase_results' = withSummary
                ELSE /\ phase_results' = withSummary
                     /\ UNCHANGED kraised
    /\ kpc' = "done"
    /\ UNCHANGED << kphase, test_files, cuda_available, clock, cpu_baseline,
                    device_times, successful_tests, file_i, dev_i, kcalls >>
    /\ UNCHANGED notTesterVars

MaxLongManifest == 12

\* Line 284: test_files[10:] if len(test_files) > 10 else test_files[5:].
LargerFrom == 10
LargerElseFrom == 5

\* Where larger_files starts in a manifest of n files.
OffsetFor(n) == IF n > LargerFrom THEN LargerFrom ELSE LargerElseFrom

\* Where larger_files starts in test_files.
LargerOffset == OffsetFor(Len(test_files))

larger_files == Slice(test_files, LargerOffset, Len(test_files))

\* Line 292: the devices phase 3 goes through.
Phase3Devices == IF cuda_available THEN << "cpu", "cuda" >> ELSE << "cpu" >>

NoGpuResult == [present |-> FALSE]

\* Lines 272-288: phase 3 starts, or returns at once without larger files.
Phase3Start ==
    /\ kphase = "phase_3" /\ kpc = "p3_start"
    /\ phase_results' = NoPhase
    /\ device_times' = << >>
    /\ file_i' = 0
    /\ dev_i' = 0
    /\ kpc' = IF larger_files = << >> THEN "done" ELSE "p3_loop"
    /\ UNCHANGED << kphase, test_files, cuda_available, clock, cpu_baseline,
                    successful_tests, kcalls, kraised >>
    /\ UNCHANGED notTesterVars

\* Lines 322-325: the first entry whose filename is the file's.
EntryFor(entries, name, i) ==
    CHOOSE k \in 1..Len(entries) :
        /\ entries[k].filename = name
        /\ \A j \in 1..(k - 1) : entries[j].filename # name

\* Lines 296-325: one turn of phase 3's inner loop for the current device.
Phase3File ==
    /\ kphase = "phase_3" /\ kpc = "p3_loop"
    /\ dev_i < Len(Phase3Devices)
    /\ file_i < Len(larger_files)
    /\ LET d == Phase3Devices[dev_i + 1]
           f == LargerOffset + file_i + 1
           filename == test_files[f].filename
           res == test_single_file(f, d)
       IN  /\ kcalls' = Append(kcalls, [phase |-> 3, file |-> f, device |-> d])
           /\ device_times' = IF res.success
                              THEN Append(device_times, res.transcribe_time)
                              ELSE device_times
           /\ phase_results' =
                 IF d = "cpu"
                 THEN [phase_results EXCEPT !.files_tested =
                          Append(@, [filename |-> filename,
                                     cpu_result |-> res,
                                     gpu_result |-> NoGpuResult])]
                 ELSE [phase_results EXCEPT
                          !.files_tested[EntryFor(phase_results.files_tested,
                                                  filename, file_i)].gpu_result =
                              [present |-> TRUE, result |-> res]]
    /\ file_i' = file_i + 1
    /\ UNCHANGED << kphase, kpc, test_files, cuda_available, clock,
                    cpu_baseline, successful_tests, dev_i, kraised >>
    /\ UNCHANGED notTesterVars

\* Lines 292-331: the inner loop is over; the next device, or return.
Phase3NextDevice ==
    /\ kphase = "phase_3" /\ kpc = "p3_loop"
    /\ dev_i < Len(Phase3Devices)
    /\ file_i = Len(larger_files)
    /\ dev_i' = dev_i + 1
    /\ file_i' = 0
    /\ device_times' = << >>
    /\ kpc' = IF dev_i + 1 = Len(Phase3Devices) THEN "done" ELSE "p3_loop"
    /\ UNCHANGED << kphase, test_files, cuda_available, clock, cpu_baseline,
                    phase_results, successful_tests, kcalls, kraised >>
    /\ UNCHANGED notTesterVars

\* A file nothing is varied about.
PlainFile == [filename |-> "a.mp3", ok |-> [d \in Devices |-> TRUE]]

\* The manifests phase 3 is run on: n files, the ones it does not read are
\* plain, the ones it reads are v.
TailLen(n) == IF n > OffsetFor(n) THEN n - OffsetFor(n) ELSE 0

LongManifest(n, v) == [f \in 1..(n - Len(v)) |-> PlainFile] \o v

InitTester ==
    /\ CoreIdle
    /\ SimpleIdle
    /\ SamplerIdle
    /\ BenchIdle
    /\ kphase \in {"phases_1_2", "phase_3"}
    /\ kpc = IF kphase = "phases_1_2" THEN "p1_start" ELSE "p3_start"
    /\ IF kphase = "phases_1_2"
       THEN test_files \in Manifests({"a.mp3"}, 0..MaxManifest)
       ELSE \E n \in 0..MaxLongManifest :
              \E v \in [1..TailLen(n) -> FileInfos(FileNames)] :
                test_files = LongManifest(n, v)
    /\ cuda_available \in BOOLEAN
    /\ clock \in (IF kphase = "phases_1_2" THEN {"fine", "coarse"} ELSE {"fine"})
    /\ cpu_baseline = NoPhase /\ phase_results = NoPhase
    /\ device_times = << >> /\ successful_tests = 0
    /\ file_i = 0 /\ dev_i = 0 /\ kcalls = << >> /\ kraised = "none"

NextTester ==
    \/ Phase1Start
    \/ Phase1File
    \/ Phase1Summary
    \/ Phase2Start
    \/ Phase2File
    \/ Phase2Summary
    \/ Phase3Start
    \/ Phase3File
    \/ Phase3NextDevice

SpecTester == InitTester /\ [][NextTester]_vars

----------------------------------------------------------------------------
(* AudioBenchmark (src/tests/gpu_acceleration/benchmark_gpu_vs_cpu.py) *)

MaxAudio == 9
TestFiles == 8

\* The sizes a file of the benchmark's directory has: two files can tie or
\* differ.
AudioSizes == {1, 2}

\* The directory tests/audio_samples: missing, or the sizes of its *.mp3
\* files in the order glob() lists them.
AudioDirs ==
    {[exists |-> FALSE, sizes |-> << >>]}
    \cup {[exists |-> TRUE, sizes |-> q] :
            q \in UNION {[1..n -> AudioSizes] : n \in 0..MaxAudio}}

\* What gpu.load * 100 is at the monitor call after each file of a run: an
\* idle GPU, a busy one, and one that is idle at the first reading only.
GpuLoads ==
    {[i \in 1..TestFiles |-> 0],
     [i \in 1..TestFiles |-> 50],
     [i \in 1..TestFiles |-> IF i = 1 THEN 0 ELSE 50]}

\* Line 66: audio_files.sort(key=st_size), the files by position in the
\* listing (list.sort is stable).
BenchSortNone(sz) == [i \in 1..Len(sz) |-> i]
BenchSort(sz) == SortBySize(sz, Len(sz))

\* Lines 53-75: get_audio_files; the empty list for a missing or empty
\* directory.
get_audio_files ==
    IF ~audio_dir.exists \/ audio_dir.sizes = << >> THEN << >>
    ELSE BenchSort(audio_dir.sizes)

\* Lines 77-100: monitor_resources after file i; gpu_percent is 0 unless
\* CUDA and GPUtil are both there.
monitor_resources(i) ==
    [gpu_percent |-> IF bcuda /\ gputil THEN gpu_load[i] ELSE 0]

\* Lines 160-174: the result of file i of test_files.
BenchResult(i) ==
    [file |-> btest_files[i],
     file_size |-> audio_dir.sizes[btest_files[i]],
     resources_after |-> monitor_resources(i),
     device |-> bdevice]

\* Lines 230-231 and 237-238: test_model_performance returned r; the caller
\* stores it and goes on with the CPU run or the comparison.
BenchReturn(r, how) ==
    /\ bench' = IF bdevice = "cuda" THEN [bench EXCEPT !.gpu_results = r]
                ELSE [bench EXCEPT !.cpu_results = r]
    /\ bcalls' = Append(bcalls, [device |-> bdevice, how |-> how, ret |-> r])
    /\ bdevice' = IF bdevice = "cuda" THEN "cpu" ELSE "none"
    /\ bpc' = IF bdevice = "cuda" THEN "load" ELSE "compare"
    /\ btest_files' = << >>
    /\ bresults' = << >>

\* Lines 209-213: which failures inside test_model_performance end in
\* `return []`.
BenchCatchesLoadOnly(how) == how = "load_failed"
BenchCatches(how) == how \in {"load_failed", "transcribe_failed"}

\* Lines 209-213: a failure inside the try block; an uncaught one would
\* leave the benchmark.
BenchFailure(how) ==
    IF BenchCatches(how) THEN BenchReturn(<< >>, how) /\ UNCHANGED braised
    ELSE /\ braised' = "Exception" /\ bpc' = "raised"
         /\ bcalls' = Append(bcalls, [device |-> bdevice, how |-> "raised",
                                      ret |-> bresults])
         /\ UNCHANGED << bench, bdevice, btest_files, bresults >>

\* Lines 215-233: the GPU run when CUDA is there, else the CPU run at once.
BenchStart ==
    /\ bpc = "start"
    /\ bdevice' = IF bcuda THEN "cuda" ELSE "cpu"
    /\ bpc' = "load"
    /\ UNCHANGED << audio_dir, bcuda, gputil, gpu_load, btest_files, bresults,
                    bench, bcalls, braised, saved >>
    /\ UNCHANGED notBenchVars

\* Lines 107-129: the model is constructed (or the constructor raises), the
\* files are listed, the first 8 are taken.
BenchLoad ==
    /\ bpc = "load"
    /\ \E ok \in BOOLEAN :
         IF ~ok THEN BenchFailure("load_failed")
         ELSE IF get_audio_files = << >>
         THEN BenchReturn(<< >>, "no_files") /\ UNCHANGED braised
         ELSE /\ btest_files' = Slice(get_audio_files, 0, TestFiles)
              /\ bresults' = << >>
              /\ bpc' = "files"
              /\ UNCHANGED << bench, bcalls, bdevice, braised >>
    /\ UNCHANGED << audio_dir, bcuda, gputil, gpu_load, saved >>
    /\ UNCHANGED notBenchVars

\* Lines 134-188: one pass of the loop; the transcription of the file
\* succeeds or raises.
BenchFile ==
    /\ bpc = "files"
    /\ Len(bresults) < Len(btest_files)
    /\ \E ok \in BOOLEAN :
         IF ~ok THEN BenchFailure("transcribe_failed")
         ELSE /\ bresults' = Append(bresults, BenchResult(Len(bresults) + 1))
              /\ UNCHANGED << bpc, bench, bcalls, bdevice, btest_files,
                              braised >>
    /\ UNCHANGED << audio_dir, bcuda, gputil, gpu_load, saved >>
    /\ UNCHANGED notBenchVars

\* Lines 190-207: after the loop; statistics.mean has a non-empty list
\* (test_files is not empty) and the results are returned.
BenchSummary ==
    /\ bpc = "files"
    /\ Len(bresults) = Len(btest_files)
    /\ BenchReturn(bresults, "ok")
    /\ UNCHANGED << audio_dir, bcuda, gputil, gpu_load, braised, saved >>
    /\ UNCHANGED notBenchVars

\* Line 285: the GPU readings statistics.mean gets, the positive ones only.
PositiveGpuReadings(rs) ==
    SelectSeq([i \in 1..Len(rs) |-> rs[i].resources_after.gpu_percent],
              LAMBDA g : g > 0)

\* Lines 246-325: compare_results. It returns early at line 257 when a
\* device has no results; statistics.mean raises StatisticsError on an empty
\* list (line 285); every division is guarded (lines 270, 271, 301).
BenchCompare ==
    /\ bpc = "compare"
    /\ IF bench.gpu_results = << >> \/ bench.cpu_results = << >>
       THEN bpc' = "save" /\ UNCHANGED << bench, braised >>
       ELSE IF PositiveGpuReadings(bench.gpu_results) = << >>
       THEN bpc' = "raised" /\ braised' = "StatisticsError" /\ UNCHANGED bench
       ELSE /\ bpc' = "save"
            /\ bench' = [bench EXCEPT
                 !.summary = [keys |-> {"gpu_avg_speed", "cpu_avg_speed",
                                        "speed_improvement", "time_improvement",
                                        "gpu_total_time", "cpu_total_time",
                                        "files_tested"},
                              files_tested |-> Len(bench.gpu_results)]]
            /\ UNCHANGED braised
    /\ UNCHANGED << audio_dir, bcuda, gputil, gpu_load, bdevice, btest_files,
                    bresults, bcalls, saved >>
    /\ UNCHANGED notBenchVars

\* Lines 327-337: save_results; a failed write is caught and printed.
BenchSave ==
    /\ bpc = "save"
    /\ saved' = TRUE
    /\ bpc' = "done"
    /\ UNCHANGED << audio_dir, bcuda, gputil, gpu_load, bdevice, btest_files,
                    bresults, bench, bcalls, braised >>
    /\ UNCHANGED notBenchVars

InitBench ==
    /\ CoreIdle
    /\ SimpleIdle
    /\ SamplerIdle
    /\ TesterIdle
    /\ bpc = "start"
    /\ audio_dir \in AudioDirs
    /\ bcuda \in BOOLEAN
    /\ gputil \in BOOLEAN
    /\ gpu_load \in (IF bcuda /\ gputil THEN GpuLoads
                     ELSE {[i \in 1..TestFiles |-> 0]})
    /\ bdevice = "none" /\ btest_files = << >> /\ bresults = << >>
    /\ bench = NoBench /\ bcalls = << >> /\ braised = "none" /\ saved = FALSE

NextBench ==
    \/ BenchStart
    \/ BenchLoad
    \/ BenchFile
    \/ BenchSummary
    \/ BenchCompare
    \/ BenchSave

SpecBench == InitBench /\ [][NextBench]_vars

----------------------------------------------------------------------------
(* Vocabulary of the properties *)

Terminal == pc = "exit"

\* The script ended in its module-level statements; main was not called.
StartupFailed ==
    /\ prog = "main" /\ Terminal
    /\ ret.device = "not installed" \/ (uncaught /\ exc = "ProbeRaised")

\* The script gets to its entry point: for gpu_transcribe.py the imports
\* succeed and the start-up probe returns.
StartsUp ==
    prog = "main" =>
        (env.torchImport /\ env.fwImport /\ env.gpu # "probe_error")

\* The run ended with a result.
Succeeded == Terminal /\ ret.done /\ ret.ok

\* The run ended because the audio path does not exist.
InputNotFound ==
    Terminal /\ ret.done /\ ~ret.ok /\ ret.detail = "File not found"

\* The run ended in failure after trying devices.
AllDevicesExhausted ==
    /\ Terminal /\ ret.done /\ ~ret.ok
    /\ ret.detail # "File not found"
    /\ ret.device # "not installed"

HasGpu == detect_gpu_capability(env.gpu).has_gpu

\* The device order one run works through.
PreferenceOrder ==
    CASE prog = "main" ->
            IF args.device = "cpu" \/ ~HasGpu THEN << "cpu" >>
            ELSE << "cuda", "cpu" >>
      [] prog = "single" -> << args.device >>
      [] OTHER -> << "cuda", "cpu" >>

AllFailed == \A i \in 1..Len(attempts) : attempts[i].outcome = "failure"

\* The device the run reports as used: device_info['device'] (main), the
\* returned device (validate, single), the last "model loaded" line (simple).
DeviceUsed ==
    IF prog = "simple"
    THEN (IF out = << >> THEN "none" ELSE out[Len(out)].device)
    ELSE ret.device

IsFailureMsg(m) ==
    m.msg \in {"error_loading", "failed_on", "transcription_error"}

\* The device a printed failure belongs to: its own, or the one named by the
\* closest "loading" line printed before it.
FailureDevice(k) ==
    IF out[k].device # "none" THEN out[k].device
    ELSE LET ls == {j \in 1..(k - 1) : out[j].msg = "loading"}
         IN IF ls = {} THEN "none"
            ELSE out[CHOOSE j \in ls : \A l \in ls : l <= j].device

RECURSIVE FailuresFrom(_)
FailuresFrom(k) ==
    IF k > Len(out) THEN << >>
    ELSE IF IsFailureMsg(out[k])
         THEN << [device |-> FailureDevice(k), detail |-> out[k].detail] >>
              \o FailuresFrom(k + 1)
         ELSE FailuresFrom(k + 1)

\* The failures the caller is told about, in order: the printed ones, or for
\* test_single_file (which prints nothing) the returned error record.
ReportedFailures ==
    IF prog = "single"
    THEN (IF ret.done /\ ~ret.ok /\ ret.device # "none"
          THEN << [device |-> ret.device, detail |-> ret.detail] >>
          ELSE << >>)
    ELSE FailuresFrom(1)

RECURSIVE FailedAttemptsFrom(_)
FailedAttemptsFrom(i) ==
    IF i > Len(attempts) THEN << >>
    ELSE IF attempts[i].outcome = "failure"
         THEN << [device |-> attempts[i].device, detail |-> attempts[i].detail] >>
              \o FailedAttemptsFrom(i + 1)
         ELSE FailedAttemptsFrom(i + 1)

\* The failed attempts of the trail, in order.
FailedAttempts == FailedAttemptsFrom(1)

----------------------------------------------------------------------------
(* Properties *)

----------------------------------------------------------------------------
(* The same entry point called a second time in the same process, with the *)
(* same arguments and an unchanged environment. The call starts at the     *)
(* function's first statement; whatever the first call left in the process *)
(* (locals' old values, engines it did not release, printed output) is     *)
(* still there.                                                            *)

Rerun ==
    /\ Terminal /\ ~first.ended
    /\ ~StartupFailed
    /\ first' = [ended |-> TRUE, ret |-> ret, device_used |-> DeviceUsed,
                 attempts |-> attempts]
    /\ pc' = EntryPc(prog)
    /\ attempts' = << >>
    /\ ret' = NoRet
    /\ uncaught' = FALSE
    /\ UNCHANGED << transcribeVars, concVars, scriptVars >>
    /\ UNCHANGED << prog, env, args, device, actual_device, device_info, idx,
                    exc, engines, cacheCleared, out >>

NextTwice == Next \/ Rerun

SpecTwice == Init /\ [][NextTwice]_vars

\* C1: a run that got to its entry point ends with InputNotFound exactly
\* when the audio path does not exist, and a run on a missing path never
\* constructs an engine on any device (its attempt trail stays empty).
C1_InputNotFoundIffMissing ==
    /\ (Terminal /\ StartsUp) => (InputNotFound <=> ~env.fileExists)
    /\ InputNotFound => ~env.fileExists
    /\ ~env.fileExists => attempts = << >> /\ engines = {}

C1_Witness ==
    /\ Terminal /\ InputNotFound /\ ~env.fileExists
    /\ prog = "main" /\ attempts = << >>

\* C2: devices are attempted one after the other in the preference order:
\* the devices attempted so far are a prefix of the order, every attempt
\* before the latest one has failed, and at most one engine is held.
C2_SequentialInOrder ==
    /\ Len(attempts) <= Len(PreferenceOrder)
    /\ \A i \in 1..Len(attempts) : attempts[i].device = PreferenceOrder[i]
    /\ \A i \in 1..Len(attempts) :
          i < Len(attempts) => attempts[i].outcome = "failure"
    /\ \A i \in 1..Len(attempts) : \A j \in 1..Len(attempts) :
          i < j => attempts[i].device = "cuda" /\ attempts[j].device = "cpu"
    /\ Cardinality(engines) <= 1

C2_Witness ==
    /\ Terminal /\ Len(attempts) = 2
    /\ attempts[1].device = "cuda" /\ attempts[1].outcome = "failure"
    /\ attempts[2].device = "cpu"

\* C3: with the order [cuda, cpu] and an input that exists, when
\* construction on cuda fails and the
\* cpu constructs (and, in main, transcribes), the run succeeds on the cpu
\* and its trail is exactly: the cuda construction failure with its detail,
\* then the cpu success; the cuda failure is reported with that detail.
C3_FallbackToCpuSucceeds ==
    ( /\ Terminal
      /\ prog \in {"main", "validate", "simple"}
      /\ env.fileExists /\ env.fwImport /\ StartsUp
      /\ PreferenceOrder = << "cuda", "cpu" >>
      /\ env.con["cuda"] # "ok" /\ env.con["cpu"] = "ok" /\ env.tr["cpu"] = "ok" )
    =>
    ( /\ Succeeded
      /\ DeviceUsed = "cpu"
      /\ Len(attempts) = 2
      /\ attempts[1].device = "cuda" /\ attempts[1].outcome = "failure"
      /\ attempts[1].kind = "DeviceConstructionFailed"
      /\ attempts[1].detail = env.con["cuda"]
      /\ attempts[2].device = "cpu" /\ attempts[2].outcome = "success"
      /\ ReportedFailures = << [device |-> "cuda", detail |-> env.con["cuda"]] >> )

C3_Witness ==
    /\ Terminal /\ prog = "main" /\ Succeeded
    /\ env.con["cuda"] = "OutOfMemory"
    /\ Len(attempts) = 2 /\ ret.device = "cpu"

\* C4: a transcription failure on a constructed engine is handled like a
\* construction failure: the attempt is recorded as failed and the next
\* device of the order is attempted, so a run that ends in failure has
\* attempted every device of its order.
C4_TranscriptionFailureFallsBack ==
    ( /\ Terminal /\ ~ret.ok
      /\ \E i \in 1..Len(attempts) :
            attempts[i].kind = "TranscriptionExecutionFailed" )
    =>
    ( /\ AllFailed
      /\ Len(attempts) = Len(PreferenceOrder) )

\* C5: a run that attempted a device ends with AllDevicesExhausted exactly
\* when every attempt of its trail failed, and only such a run does.
C5_ExhaustedIffAllFailed ==
    /\ (Terminal /\ attempts # << >>) => (AllDevicesExhausted <=> AllFailed)
    /\ AllDevicesExhausted => attempts # << >>

C5_Witness ==
    /\ AllDevicesExhausted /\ AllFailed /\ Len(attempts) = 2
    /\ prog = "validate"

\* C6: when every device of the order failed, what the caller is told holds
\* one failure per device tried, in the order tried, each with the detail of
\* that device's failure.
C6_ExhaustionReportsTrail ==
    ( /\ AllDevicesExhausted
      /\ Len(attempts) = Len(PreferenceOrder) )
    =>
    ( /\ AllFailed
      /\ Len(ReportedFailures) = Len(PreferenceOrder)
      /\ \A i \in 1..Len(ReportedFailures) :
            /\ ReportedFailures[i].device = PreferenceOrder[i]
            /\ ReportedFailures[i].detail = attempts[i].detail
            /\ ReportedFailures[i].detail # "none" )

C6_Witness ==
    /\ AllDevicesExhausted /\ prog = "main"
    /\ PreferenceOrder = << "cuda", "cpu" >>
    /\ Len(attempts) = 2
    /\ attempts[1].detail = "OutOfMemory" /\ attempts[2].detail = "DriverMissing"
    /\ Len(ReportedFailures) = 2

\* C7: no exception of the engine provider leaves an entry point: the only
\* exception that is not caught is the start-up probe's, raised before any
\* engine is constructed, and every other run ends with a value for the
\* caller, either a result or an error that comes with the failure of every
\* failed attempt.
C7_NoUnstructuredException ==
    /\ uncaught => (~StartsUp /\ exc = "ProbeRaised" /\ attempts = << >>)
    /\ (Terminal /\ ~uncaught) =>
          /\ ret.done
          /\ ret.ok \/ InputNotFound \/ AllDevicesExhausted
                \/ ret.device = "not installed"
          /\ ReportedFailures = FailedAttempts

C7_Witness ==
    /\ Terminal /\ prog = "main" /\ ~ret.ok /\ ret.done
    /\ exc = "DecodeError" /\ ret.detail = "DecodeError"
    /\ Len(ReportedFailures) = 2

\* C8: every run releases the engines it constructed before it ends.
C8_EngineReleasedOnEveryExit ==
    Terminal => engines = {}

\* C9: no device is constructed on twice in one run.
C9_NoDeviceRetried ==
    \A i \in 1..Len(attempts) : \A j \in 1..Len(attempts) :
        i # j => attempts[i].device # attempts[j].device

C9_Witness ==
    /\ Terminal /\ prog = "main" /\ Len(attempts) = 2
    /\ attempts[1].outcome = "failure" /\ attempts[2].outcome = "failure"

\* C10: when the attempt on the first device succeeded, it is the only
\* attempt of the trail, no later device is attempted, and the run succeeds.
C10_FirstSuccessIsOnlyAttempt ==
    /\ (attempts # << >> /\ attempts[1].outcome = "success")
          => Len(attempts) = 1
    /\ (Terminal /\ attempts # << >> /\ attempts[1].outcome = "success")
          => Succeeded /\ ReportedFailures = << >>

C10_Witness ==
    /\ Terminal /\ prog = "main" /\ Succeeded
    /\ PreferenceOrder = << "cuda", "cpu" >>
    /\ Len(attempts) = 1 /\ attempts[1].device = "cuda"
    /\ attempts[1].outcome = "success"

\* The request is valid: the audio path exists, the engine library loads
\* and the script gets to its entry point.
ValidRequest == env.fileExists /\ env.fwImport /\ StartsUp

\* C11 as stated: for a valid request the number of attempts is between 1
\* and N, the length of the device order, and is N only if every attempt
\* failed.
C11_CountIsNOnlyIfAllFailed ==
    (Terminal /\ ValidRequest) =>
        /\ 1 <= Len(attempts) /\ Len(attempts) <= Len(PreferenceOrder)
        /\ Len(attempts) = Len(PreferenceOrder) => AllFailed

\* C11, amended: for a valid request the number of attempts is between 1
\* and N, never exceeds N while the run is under way, and is N only if
\* every device before the last one failed.
C11_AttemptCount ==
    /\ ValidRequest => Len(attempts) <= Len(PreferenceOrder)
    /\ (Terminal /\ ValidRequest) =>
          /\ 1 <= Len(attempts)
          /\ Len(attempts) = Len(PreferenceOrder) =>
                \A i \in 1..(Len(attempts) - 1) : attempts[i].outcome = "failure"

C11_Witness ==
    /\ Terminal /\ ValidRequest /\ prog = "main"
    /\ Len(PreferenceOrder) = 2 /\ Len(attempts) = 2
    /\ attempts[2].outcome = "success"

\* C12: a successful run has a non-empty trail whose last entry is a
\* success and whose earlier entries are failures, and the device it reports
\* is the device of that last entry.
C12_ResultMatchesLastAttempt ==
    Succeeded =>
        /\ attempts # << >>
        /\ attempts[Len(attempts)].outcome = "success"
        /\ \A i \in 1..(Len(attempts) - 1) : attempts[i].outcome = "failure"
        /\ DeviceUsed = attempts[Len(attempts)].device
        /\ prog = "main" => device_info.device = attempts[Len(attempts)].device

C12_Witness ==
    /\ Succeeded /\ prog = "main" /\ HasGpu
    /\ Len(attempts) = 2 /\ attempts[2].device = "cpu"
    /\ device_info.device = "cpu" /\ device_info.gpu_name = "gpu0"

\* C13: every construction on cuda uses float16 and every construction on
\* the cpu uses int8.
C13_PrecisionByDevice ==
    \A i \in 1..Len(attempts) :
        attempts[i].compute_type =
            IF attempts[i].device = "cuda" THEN "float16" ELSE "int8"

\* C16: an audio file that exists with size zero is rejected with
\* InputNotFound and no device is attempted for it.
C16_EmptyFileRejected ==
    ( /\ prog \in {"main", "single"} /\ env.fileExists /\ env.fileEmpty
      /\ StartsUp )
    =>
        /\ attempts = << >>
        /\ Terminal => InputNotFound

\* What a run of main that cannot use cuda ends with: the cpu's outcome.
CpuOutcome ==
    IF env.con["cpu"] = "ok" /\ env.tr["cpu"] = "ok"
    THEN [done |-> TRUE, ok |-> TRUE, device |-> "cpu", detail |-> "none"]
    ELSE [done |-> TRUE, ok |-> FALSE, device |-> "none",
          detail |-> IF env.con["cpu"] # "ok" THEN env.con["cpu"]
                     ELSE env.tr["cpu"]]

\* C18: when cuda cannot be constructed on, a run of main that asks for
\* cuda (or auto) ends with the cpu's outcome whether the GPU probe made it
\* skip cuda or it attempted cuda, failed and fell back; a run made to skip
\* never constructs on cuda, a run not made to skip attempts cuda first.
C18_PrefilterIsOptimization ==
    ( /\ prog = "main" /\ env.fileExists /\ StartsUp
      /\ args.device \in {"auto", "cuda"}
      /\ env.con["cuda"] # "ok" )
    =>
    ( /\ Terminal => ret = CpuOutcome
      /\ ~HasGpu => \A i \in 1..Len(attempts) : attempts[i].device = "cpu"
      /\ (HasGpu /\ attempts # << >>) => attempts[1].device = "cuda" )

C18_Witness ==
    /\ Terminal /\ prog = "main" /\ args.device = "cuda" /\ ~HasGpu
    /\ env.con["cuda"] # "ok"
    /\ Succeeded /\ ret.device = "cpu" /\ Len(attempts) = 1

RECURSIVE JoinTrimmed(_)
\* The texts of the segments, each trimmed, joined by single spaces.
JoinTrimmed(segs) ==
    IF segs = << >> THEN << >>
    ELSE IF Len(segs) = 1 THEN Strip(segs[1].text)
    ELSE Strip(segs[1].text) \o << " " >> \o JoinTrimmed(Tail(segs))

NoEdgeSpace(t) == t = << >> \/ (~IsSpace(t[1]) /\ ~IsSpace(t[Len(t)]))

\* C14: the result has one segment per emitted segment, in the engine's
\* order, each with its text trimmed; the aggregate text is the trimmed
\* texts joined by single spaces, without leading or trailing whitespace.
C14_TextIsJoinOfTrimmedSegments ==
    result.built =>
        /\ Len(result.segments) = Len(emitted)
        /\ \A k \in 1..Len(emitted) :
              /\ result.segments[k].start = emitted[k].start
              /\ result.segments[k].text = Strip(emitted[k].text)
        /\ result.text = Strip(JoinTrimmed(emitted))
        /\ NoEdgeSpace(result.text)

C14_Witness ==
    /\ result.built /\ Len(emitted) = 2
    /\ emitted[1].text = << " ", "a", " " >>
    /\ emitted[2].text = << "a", " ", "a" >>
    /\ result.text = << "a", " ", "a", " ", "a" >>

\* C15: a result's processing time is positive and its real-time factor is
\* a defined, non-negative number; no quotient of a duration by a processing
\* time raises ZeroDivisionError, also when no file was processed.
C15_TimeAndFactorWellDefined ==
    /\ result.built =>
          /\ result.processing_time > 0
          /\ result.real_time_factor.den > 0
          /\ result.real_time_factor.num >= 0
    /\ ~zero_division

\* C17: a second call with the same arguments in an unchanged environment
\* ends with the same outcome, the same device used and the same attempt
\* trail as the first call.
C17_SecondRunSameAsFirst ==
    (first.ended /\ Terminal) =>
        /\ DeviceUsed = first.device_used
        /\ attempts = first.attempts
        /\ ret = first.ret

C17_Witness ==
    /\ first.ended /\ Terminal /\ prog = "main"
    /\ Len(first.attempts) = 2 /\ Len(attempts) = 2
    /\ first.device_used = "cpu" /\ DeviceUsed = "cpu"
    /\ engines # {}

\* No two invocations were asked for the same device.
IndependentDevices ==
    \A i, j \in Invocations : i # j => creq[i] # creq[j]

\* C19: when the concurrent invocations were asked for different devices,
\* every one of them that has ended has the outcome and the trail it has when
\* run alone, and one still running has a trail on the way to it.
C19_IndependentDevicesNoInterference ==
    IndependentDevices =>
        \A i \in Invocations :
            LET alone == AloneTrail(env, creq[i]) IN
            /\ Len(ctrail[i]) <= Len(alone)
            /\ ctrail[i] = SubSeq(alone, 1, Len(ctrail[i]))
            /\ cpc[i] = "exit" =>
                  /\ ctrail[i] = alone
                  /\ cret[i] = AloneRet(env, creq[i])

C19_Witness ==
    /\ creq[1] = "cuda" /\ creq[2] = "cpu"
    /\ env.con["cuda"] = "ok" /\ env.con["cpu"] = "ok"
    /\ cpc[1] = "exit" /\ cheld[2]["cpu"] = EngineUnits /\ cpc[2] = "transcribe"
    /\ cret[1] = [done |-> TRUE, ok |-> TRUE, device |-> "cuda"]

\* C20: nothing holds a construction back: an invocation that has reached
\* WhisperModel(...) can always take its next step, whatever the other
\* invocations hold of the device's memory.
C20_NoAdmissionControl ==
    \A i \in Invocations : cpc[i] = "construct" => ENABLED ConcConstruct(i)

\* C20's interleaving: every invocation asked for cuda, the provider works,
\* and every construction on cuda failed for lack of memory.
C20_Witness ==
    /\ \A i \in Invocations : creq[i] = "cuda"
    /\ env.con["cuda"] = "ok"
    /\ \A i \in Invocations :
          /\ ctrail[i] # << >>
          /\ ctrail[i][1] = ConcAttempt("cuda", FALSE, "OutOfMemory")

\* C30: a run of main asked for the cpu constructs at most one engine, on
\* the cpu and never on cuda; with the file present it constructs exactly
\* one, and when that construction fails the run ends in failure with no
\* other device tried.
C30_CpuRequestOneCpuConstruction ==
    (prog = "main" /\ args.device = "cpu") =>
        /\ Len(attempts) <= 1
        /\ \A i \in 1..Len(attempts) :
              /\ attempts[i].device = "cpu"
              /\ attempts[i].compute_type = "int8"
        /\ "cuda" \notin engines
        /\ (Terminal /\ env.fileExists /\ StartsUp) =>
              /\ Len(attempts) = 1
              /\ ~ConstructOk(env, "cpu") =>
                    (ret.done /\ ~ret.ok /\ ret.detail = env.con["cpu"])

C30_Witness ==
    /\ prog = "main" /\ args.device = "cpu" /\ HasGpu
    /\ Terminal /\ env.con["cpu"] = "OutOfMemory" /\ env.con["cuda"] = "ok"
    /\ Len(attempts) = 1 /\ attempts[1].outcome = "failure"
    /\ ~ret.ok

\* The model was usable: whisper imports, the cache can be read, the model
\* loads and the transcription comes back with its text.
ModelUsable ==
    /\ senv.import = "ok" /\ senv.cache # "listdir_error"
    /\ senv.load = "ok" /\ senv.transcribe = "ok"

\* C21: for a path that exists transcribe_audio_simple returns a document
\* and never raises: the transcription when the model was usable, the
\* offline placeholder otherwise; for a path that does not exist it raises
\* FileNotFoundError before any call into whisper.
C21_SimpleFallsBackToPlaceholder ==
    /\ sret.kind = "raise" =>
          /\ ~senv.fileExists /\ sret.detail = "FileNotFoundError"
          /\ scalls = << >>
    /\ spc = "exit" =>
          /\ senv.fileExists => sret.kind \in {"transcription", "offline"}
          /\ ~senv.fileExists => sret.kind = "raise"
          /\ (senv.fileExists /\ ModelUsable) =>
                sret = Markdown(senv.text, model_name)
          /\ (senv.fileExists /\ ~ModelUsable) =>
                sret = create_dummy_transcription(senv)

C21_Witness ==
    /\ spc = "exit" /\ senv.fileExists
    /\ senv.import = "ok" /\ senv.load = "ok"
    /\ senv.transcribe = "no_text_key"
    /\ sret.kind = "offline"
    /\ scalls = << "import", "listdir", "load_model", "transcribe" >>

\* C22: when the archive holds more files than max_files, the returned
\* selection has a file of the smallest third, one of the middle third and
\* one of the largest third (stated for max_files of at least three, below
\* which no selection can do so).
C22_EveryBucketSampled ==
    (mpc = "returned" /\ max_files >= 3 /\ Len(audio_members) > max_files) =>
        /\ Range(sample_ret) \cap Range(small_files) # {}
        /\ Range(sample_ret) \cap Range(medium_files) # {}
        /\ Range(sample_ret) \cap Range(large_files) # {}

\* C29: the returned list has at most max_files entries, all of them members
\* of the input and none twice; an input of at most max_files members is
\* returned whole, in ascending order of size.
C29_SelectionWithinInput ==
    mpc = "returned" =>
        /\ Len(sample_ret) <= max_files
        /\ \A i \in 1..Len(sample_ret) : sample_ret[i] \in DOMAIN audio_members
        /\ \A i, j \in 1..Len(sample_ret) :
              i # j => sample_ret[i] # sample_ret[j]
        /\ Len(audio_members) <= max_files =>
              /\ Range(sample_ret) = DOMAIN audio_members
              /\ Len(sample_ret) = Len(audio_members)
              /\ \A i, j \in 1..Len(sample_ret) :
                    i < j =>
                      audio_members[sample_ret[i]] <= audio_members[sample_ret[j]]

C29_Witness ==
    /\ mpc = "returned" /\ Len(audio_members) = 6 /\ max_files = 4
    /\ Len(sample_ret) = 4 /\ Len(selected) = 6
    /\ audio_members[1] = 2 /\ audio_members[6] = 1

\* The calls phase n made to test_single_file, in order.
RECURSIVE CallsOf(_, _)
CallsOf(q, n) ==
    IF q = << >> THEN << >>
    ELSE IF Head(q).phase = n THEN << Head(q) >> \o CallsOf(Tail(q), n)
         ELSE CallsOf(Tail(q), n)

\* C24: run_phase_2_gpu_comparison returns a phase result and raises
\* nothing, whatever the per-file outcomes of the two phases were.
C24_Phase2NeverRaises ==
    kphase = "phases_1_2" => kraised = "none"

IsCudaCall(c) == c.device = "cuda"

\* Phase 2 is in or past its loop.
InPhase2 ==
    /\ kphase = "phases_1_2" /\ kpc \in {"p2_loop", "done"} /\ cuda_available

\* C23: phase 2 runs cuda on the files phase 1 ran, in the same order; a
\* per-file speedup is recorded exactly when the cpu run and the cuda run of
\* that file both succeeded, and it is the quotient of that file's cpu time
\* by that file's GPU time.
C23_Phase2SameFilesAsBaseline ==
    InPhase2 =>
        LET c1 == CallsOf(kcalls, 1)
            c2 == SelectSeq(CallsOf(kcalls, 2), IsCudaCall)
            ents == phase_results.files_tested
        IN  /\ Len(c2) <= Len(c1)
            /\ \A k \in 1..Len(c2) : c2[k].file = c1[k].file
            /\ kpc = "done" => Len(c2) = Len(c1)
            /\ \A k \in 1..Len(ents) :
                  LET f == ents[k].result.file
                      cmp == ents[k].cpu_comparison
                  IN  /\ cmp.present <=>
                             (test_files[f].ok["cpu"] /\ test_files[f].ok["cuda"])
                      /\ cmp.present =>
                             /\ cmp.cpu_file = f /\ cmp.gpu_file = f
                             /\ cmp.cpu_time = TranscribeTime(f, "cpu")
                             /\ cmp.gpu_time = TranscribeTime(f, "cuda")
                             /\ cmp.speedup =
                                   GuardedQuotient(cmp.cpu_time, cmp.gpu_time)

C23_Witness ==
    /\ InPhase2 /\ kpc = "done" /\ Len(test_files) = 6 /\ kraised = "none"
    /\ Len(phase_results.files_tested) = 5
    /\ ~test_files[1].ok["cpu"] /\ test_files[1].ok["cuda"]
    /\ phase_results.files_tested[2].cpu_comparison.present
    /\ phase_results.files_tested[2].cpu_comparison.speedup
          = [num |-> 3, den |-> 2]

\* C27: in phase 2 every file gets one cuda run; the cpu is run on it once,
\* right after, when and only when the cuda run failed; the entry recorded
\* for the file holds the cuda result, with the fallback attached only when
\* the fallback succeeded; the success count and the GPU times cover the
\* files whose cuda run succeeded and no others.
C27_FallbackOnlyAfterCudaFailure ==
    InPhase2 =>
        LET c2 == CallsOf(kcalls, 2)
            ents == phase_results.files_tested
            cudaOk == {k \in 1..Len(ents) : test_files[k].ok["cuda"]}
        IN  /\ \A k \in 1..Len(ents) :
                  LET cudaCalls == {j \in 1..Len(c2) :
                                       c2[j].file = k /\ c2[j].device = "cuda"}
                      cpuCalls == {j \in 1..Len(c2) :
                                      c2[j].file = k /\ c2[j].device = "cpu"}
                  IN  /\ Cardinality(cudaCalls) = 1
                      /\ k \in cudaOk => cpuCalls = {}
                      /\ k \notin cudaOk =>
                            /\ Cardinality(cpuCalls) = 1
                            /\ \A j \in cpuCalls : (j - 1) \in cudaCalls
                      /\ ents[k].result = test_single_file(k, "cuda")
                      /\ ents[k].cpu_fallback.present <=>
                            (k \notin cudaOk /\ test_files[k].ok["cpu"])
                      /\ ents[k].cpu_fallback.present =>
                            ents[k].cpu_fallback.result
                               = test_single_file(k, "cpu")
            /\ successful_tests = Cardinality(cudaOk)
            /\ Len(device_times) = Cardinality(cudaOk)
            /\ SumSeq(device_times)
                  = SumSeq([j \in 1..Len(ents) |->
                               IF j \in cudaOk THEN TranscribeTime(j, "cuda")
                               ELSE 0])
            /\ (kpc = "done" /\ cudaOk # {}) =>
                  /\ phase_results.summary.successful_tests = Cardinality(cudaOk)
                  /\ phase_results.summary.total = SumSeq(device_times)

C27_Witness ==
    /\ InPhase2 /\ kpc = "done" /\ Len(test_files) = 3
    /\ ~test_files[1].ok["cuda"] /\ test_files[1].ok["cpu"]
    /\ ~test_files[2].ok["cuda"] /\ ~test_files[2].ok["cpu"]
    /\ test_files[3].ok["cuda"] /\ test_files[3].ok["cpu"]
    /\ phase_results.files_tested[1].cpu_fallback.present
    /\ ~phase_results.files_tested[2].cpu_fallback.present
    /\ successful_tests = 1 /\ Len(kcalls) = 8

\* C28: after phase 3 files_tested has one entry per larger file, in order,
\* each with the cpu result of its file and, with CUDA available, the GPU
\* result of that same file.
C28_Phase3OneEntryPerFile ==
    (kphase = "phase_3" /\ kpc = "done") =>
        LET ents == phase_results.files_tested IN
        /\ Len(ents) = Len(larger_files)
        /\ \A k \in 1..Len(ents) :
              /\ ents[k].filename = test_files[LargerOffset + k].filename
              /\ ents[k].cpu_result = test_single_file(LargerOffset + k, "cpu")
              /\ cuda_available =>
                    /\ ents[k].gpu_result.present
                    /\ ents[k].gpu_result.result
                          = test_single_file(LargerOffset + k, "cuda")

\* C25: run_comprehensive_benchmark always reaches save_results: whatever the
\* GPU availability, the outcome of each device's run and the monitor's
\* readings (GPU utilisation 0 for every file included), the comparison
\* completes and the results are written, so a run that has ended has saved.
C25_BenchmarkAlwaysSaves == bpc \in {"done", "raised"} => saved

\* The files of a list of results, in order.
BenchFilesOf(rs) == [i \in 1..Len(rs) |-> rs[i].file]

\* rs holds one result for each of the first min(8, n) files of the directory
\* in ascending size order: k distinct files, sizes never decreasing, and no
\* file left out is smaller than one taken.
FirstBySize(rs) ==
    LET n == Len(audio_dir.sizes)
        taken == Range(BenchFilesOf(rs))
    IN /\ Len(rs) = Min2(TestFiles, n)
       /\ taken \subseteq 1..n
       /\ Cardinality(taken) = Len(rs)
       /\ \A i \in 1..Len(rs) : rs[i].file_size = audio_dir.sizes[rs[i].file]
       /\ \A i, j \in 1..Len(rs) : i < j => rs[i].file_size <= rs[j].file_size
       /\ \A f \in (1..n) \ taken : \A g \in taken :
            audio_dir.sizes[g] <= audio_dir.sizes[f]

\* C26: test_model_performance is all-or-nothing and never raises: every call
\* returns, with the empty list when the model did not load, the directory
\* had no audio file or a transcription failed, and otherwise with exactly
\* one result per file for the first min(8, n) files in ascending size order.
C26_AllOrNothing ==
    /\ braised # "Exception"
    /\ \A c \in 1..Len(bcalls) :
         /\ bcalls[c].how # "raised"
         /\ bcalls[c].how \in {"load_failed", "no_files", "transcribe_failed"}
              => bcalls[c].ret = << >>
         /\ bcalls[c].how = "ok" => FirstBySize(bcalls[c].ret)

\* A call returned eight results from a directory of more than eight files
\* of both sizes listed largest first, and another call of the same run lost
\* its results to a failed transcription.
C26_Witness ==
    /\ Len(audio_dir.sizes) > TestFiles
    /\ audio_dir.sizes[1] = 2
    /\ \E c \in 1..Len(bcalls) :
         /\ bcalls[c].how = "ok" /\ Len(bcalls[c].ret) = TestFiles
         /\ bcalls[c].ret[1].file_size = 1
    /\ \E c \in 1..Len(bcalls) : bcalls[c].how = "transcribe_failed"

====
